---- MODULE Spec2Model ----
(***************************************************************************)
(* ChordSheet Studio: the lyrics/chord document of App.tsx, edited through *)
(* one LyricsEditor per column.  A column's text is one string; its lines  *)
(* are text.split('\n').  Chords are anchored to (lineIndex, charIndex).   *)
(* Indices are 0-based as in the source; sequences here are 1-based, so    *)
(* line i of the source is Lines(col)[i + 1].                              *)
(***************************************************************************)
EXTENDS Integers, Sequences, FiniteSets, TLC

\* ------------------------------------------------------------------ bounds
\* the number of documents loaded and edits made in a run
MaxEdits == 3

\* --------------------------------------------------------------- constants
MAX_HISTORY_SIZE == 50

Columns == {"left", "middle", "right"}
NL == "\n"
CR == "\r"

VARIABLES
  title,                \* App: title
  text,                 \* App: leftColumnText / middleColumnText / rightColumnText
  chords,               \* App: leftColumnChords / middleColumnChords / rightColumnChords
  direction,            \* App: direction
  columnCount,          \* App: columnCount
  history,              \* App: history
  historyIndex,         \* App: historyIndex
  isUndoRedoRef,        \* App: isUndoRedoRef.current
  historyTimeout,       \* App: historyTimeoutRef.current with the closure it captured
  hasUnsavedChanges,    \* App: hasUnsavedChanges
  currentDocId,         \* App: currentDocId
  autoSaved,            \* storage: the auto-save slot
  copiedSection,        \* A4Page: copiedSection
  chordMode,            \* LyricsEditor: chordMode, per column
  pendingChordPosition, \* LyricsEditor: pendingChordPosition, per column
  contextMenuChordId,   \* LyricsEditor: contextMenuChordId, per column
  selectedChordId,      \* LyricsEditor: selectedChordId, per column
  draggingChordId,      \* LyricsEditor: draggingChordId, per column
  dragStartX,           \* LyricsEditor: dragStartX, per column
  dragStartOffset,      \* LyricsEditor: dragStartOffset, per column
  document,             \* BarChartEditor: the document prop
  selectedMeasureId,    \* BarChartEditor: selectedMeasureId
  selectedBeat,         \* BarChartEditor: selectedBeat
  selectedRowId,        \* BarChartEditor: selectedRowId
  selectedSide,         \* BarChartEditor: selectedSide
  showChordDropdown,    \* BarChartEditor: showChordDropdown
  expandedMeasureIds,   \* BarChartEditor: expandedMeasureIds
  nextBarId,            \* number of ids the create helpers have produced
  applied,              \* the function applied last outside a handler, with its arguments
  returned,             \* what the applications of that function returned, in order
  lineIndicators,       \* App: leftColumnIndicators / middleColumnIndicators / rightColumnIndicators
  statusMessage,        \* the status message shown, <<>> for null
  pageFontSize,         \* the font size of the page
  showDeleteConfirm,    \* per column: the chord id of the delete dialog, <<>> for null
  editingLineIndex,     \* per column: the line that has the input, <<>> for null
  editingChordId,       \* per column: the chord the picker changes, <<>> for null
  nextChordId,          \* number of ids generateChordId has produced
  edits,                \* number of document edits performed so far
  anchor,               \* per column: chord id -> current index of the line it was placed on
  lastOp,               \* the handler that ran last, with its line argument
  beforeEnter,          \* the column as it was before the Enter that ran last
  beforeUndo,           \* the document as it was before the undo that ran last
  pointer,              \* the chord the pointer went down on, while nothing else has happened
  dropped               \* the number of entries the snapshot recorded last took out of the history

docVars == <<title, text, chords, direction, columnCount>>
histVars == <<history, historyIndex, isUndoRedoRef, historyTimeout>>
fileVars == <<hasUnsavedChanges, currentDocId, autoSaved>>
uiVars == <<copiedSection, chordMode, pendingChordPosition, contextMenuChordId>>
dragVars == <<selectedChordId, draggingChordId, dragStartX, dragStartOffset>>
barVars == <<document, selectedMeasureId, selectedBeat, selectedRowId, selectedSide,
             showChordDropdown, expandedMeasureIds, nextBarId>>
ghostVars == <<anchor, lastOp, beforeEnter, beforeUndo, pointer, dropped>>
pureVars == <<applied, returned>>
indicatorVars == <<lineIndicators>>
importVars == <<statusMessage, pageFontSize>>
dialogVars == <<showDeleteConfirm, editingLineIndex, editingChordId>>
vars == <<docVars, histVars, fileVars, uiVars, dragVars, barVars, pureVars, indicatorVars, importVars,
          dialogVars, nextChordId, edits, ghostVars>>

\* ------------------------------------------------------------ sequences
Range(s) == {s[k] : k \in 1..Len(s)}

RECURSIVE Concat(_)
Concat(ss) == IF ss = <<>> THEN <<>> ELSE Head(ss) \o Concat(Tail(ss))

MapSeq(s, F(_)) == [k \in 1..Len(s) |-> F(s[k])]

\* Array.prototype.splice(start, deleteCount, ...items) on a copy of arr
Splice(arr, start, deleteCount, items) ==
  LET s == IF start > Len(arr) THEN Len(arr) ELSE start
      d == IF deleteCount < 0 THEN 0
           ELSE IF s + deleteCount > Len(arr) THEN Len(arr) - s ELSE deleteCount
  IN SubSeq(arr, 1, s) \o items \o SubSeq(arr, s + d + 1, Len(arr))

\* String.prototype.slice(from) and slice(0, to) with in-range arguments
SliceFrom(s, from) == SubSeq(s, from + 1, Len(s))
SliceTo(s, to) == SubSeq(s, 1, to)

\* -------------------------------------------------------------- strings
\* A string is a sequence of one-character strings.
FirstIndexIn(s, cs) == CHOOSE k \in 1..Len(s) : s[k] \in cs /\ \A j \in 1..(k - 1) : s[j] \notin cs

\* text.split('\n')
RECURSIVE SplitNL(_)
SplitNL(s) ==
  IF \E k \in 1..Len(s) : s[k] = NL
  THEN LET k == FirstIndexIn(s, {NL})
       IN <<SubSeq(s, 1, k - 1)>> \o SplitNL(SubSeq(s, k + 1, Len(s)))
  ELSE <<s>>

\* lines.join('\n')
RECURSIVE JoinNL(_)
JoinNL(ls) ==
  IF ls = <<>> THEN <<>>
  ELSE IF Len(ls) = 1 THEN ls[1]
  ELSE ls[1] \o <<NL>> \o JoinNL(Tail(ls))

\* pastedText.split(/\r\n|\r|\n/)
RECURSIVE SplitNewlines(_)
SplitNewlines(s) ==
  IF \E k \in 1..Len(s) : s[k] \in {NL, CR}
  THEN LET k == FirstIndexIn(s, {NL, CR})
           w == IF s[k] = CR /\ k < Len(s) /\ s[k + 1] = NL THEN 2 ELSE 1
       IN <<SubSeq(s, 1, k - 1)>> \o SplitNewlines(SubSeq(s, k + w, Len(s)))
  ELSE <<s>>

\* String.prototype.trim() over the whitespace of the model's alphabet
IsSpace(c) == c \in {" ", NL, CR}
RECURSIVE TrimStart(_)
TrimStart(s) == IF s # <<>> /\ IsSpace(s[1]) THEN TrimStart(Tail(s)) ELSE s
RECURSIVE TrimEnd(_)
TrimEnd(s) == IF s # <<>> /\ IsSpace(s[Len(s)]) THEN TrimEnd(SubSeq(s, 1, Len(s) - 1)) ELSE s
Trim(s) == TrimEnd(TrimStart(s))

\* SECTION_PATTERN = /^\[([^\]]+)\]$/ tested on line.trim()
isSectionLine(line) ==
  LET t == Trim(line)
  IN /\ Len(t) >= 3
     /\ t[1] = "["
     /\ t[Len(t)] = "]"
     /\ \A k \in 2..(Len(t) - 1) : t[k] # "]"

\* a slip: the range ends on the next header
getSectionRangeInclusive(txt, sectionLineIndex) ==
  LET ls == SplitNL(txt)
      later == {i \in (sectionLineIndex + 1)..(Len(ls) - 1) : isSectionLine(ls[i + 1])}
  IN [startLine |-> sectionLineIndex,
      endLine |-> IF later = {} THEN Len(ls) - 1
                  ELSE CHOOSE i \in later : \A j \in later : i <= j]

\* getSectionRange(text, sectionLineIndex): 0-based startLine and endLine
getSectionRange(txt, sectionLineIndex) ==
  LET ls == SplitNL(txt)
      later == {i \in (sectionLineIndex + 1)..(Len(ls) - 1) : isSectionLine(ls[i + 1])}
  IN [startLine |-> sectionLineIndex,
      endLine |-> IF later = {} THEN Len(ls) - 1
                  ELSE (CHOOSE i \in later : \A j \in later : i <= j) - 1]

\* ------------------------------------------------------------ the document
Lines(col) == SplitNL(text[col])
LineCount(col) == Len(Lines(col))

Snapshot == [title |-> title, text |-> text, chords |-> chords]

EmptyDoc == [title |-> "", text |-> [c \in Columns |-> <<>>], chords |-> [c \in Columns |-> <<>>]]

\* the condition of the change-tracking effect
DocNonEmpty ==
  \/ currentDocId # <<>>
  \/ title # ""
  \/ \E c \in Columns : text[c] # <<>>
  \/ \E c \in Columns : chords[c] # <<>>

ChordIds(col) == {chords[col][k].id : k \in 1..Len(chords[col])}

\* getChordsForLine
getChordsForLine(col, lineIndex) ==
  SelectSeq(chords[col], LAMBDA c : c.lineIndex = lineIndex)

\* a slip: every call gives the same id
generateChordIdFixed(n) == 1

\* generateChordId: `chord-${Date.now()}-${random}`; the n-th id produced is
\* modelled by the number n, distinct calls giving distinct ids.
generateChordId(n) == n + 1

\* ------------------------------------------------- LyricsEditor: line edits
\* handleLineChange: newLines[lineIndex] = newLineText
LineChangeLines(ls, lineIndex, newLineText) == [ls EXCEPT ![lineIndex + 1] = newLineText]

\* a slip: the new line goes in before the current line
EnterLinesBefore(ls, lineIndex, newLine) == Splice(ls, lineIndex, 0, <<newLine>>)

\* Enter: newLines.splice(lineIndex + 1, 0, '')
EnterLines(ls, lineIndex, newLine) == Splice(ls, lineIndex + 1, 0, <<newLine>>)

\* a slip: the chords of the current line move down too
EnterChordsInclusive(cs, lineIndex) ==
  MapSeq(cs, LAMBDA c : IF c.lineIndex >= lineIndex
                        THEN [c EXCEPT !.lineIndex = c.lineIndex + 1] ELSE c)

\* Enter: chords after the current line move down by 1
EnterChords(cs, lineIndex) ==
  MapSeq(cs, LAMBDA c : IF c.lineIndex > lineIndex
                        THEN [c EXCEPT !.lineIndex = c.lineIndex + 1] ELSE c)

\* the guard of the Backspace branch
BackspaceGuard(ls, lineIndex) == ls[lineIndex + 1] = <<>> /\ lineIndex > 0

\* a slip: the line above is removed
BackspaceLinesAbove(ls, lineIndex) == SubSeq(ls, 1, lineIndex - 1) \o SubSeq(ls, lineIndex + 1, Len(ls))

\* Backspace: lines.filter((_, i) => i !== lineIndex)
BackspaceLines(ls, lineIndex) == SubSeq(ls, 1, lineIndex) \o SubSeq(ls, lineIndex + 2, Len(ls))

\* a slip: the chords of the deleted line are kept
BackspaceChordsKeep(cs, lineIndex) ==
  MapSeq(cs, LAMBDA c : IF c.lineIndex > lineIndex
                        THEN [c EXCEPT !.lineIndex = c.lineIndex - 1] ELSE c)

\* Backspace: drop the chords of the deleted line, move later chords up by 1
BackspaceChords(cs, lineIndex) ==
  MapSeq(SelectSeq(cs, LAMBDA c : c.lineIndex # lineIndex),
         LAMBDA c : IF c.lineIndex > lineIndex
                    THEN [c EXCEPT !.lineIndex = c.lineIndex - 1] ELSE c)

\* handleLinePaste: the lines that replace line lineIndex, generic in
\* the first and last fragment so that it also moves line markers
PasteSplice(ls, lineIndex, firstLine, middleLines, lastLine) ==
  Splice(ls, lineIndex, 1, <<firstLine>> \o middleLines \o <<lastLine>>)

PasteLines(ls, lineIndex, pastedText, selectionStart, selectionEnd) ==
  LET pastedLines == SplitNewlines(pastedText)
      currentLine == ls[lineIndex + 1]
      beforeCursor == SliceTo(currentLine, selectionStart)
      afterCursor == SliceFrom(currentLine, selectionEnd)
      firstLine == beforeCursor \o pastedLines[1]
      lastLine == pastedLines[Len(pastedLines)] \o afterCursor
      middleLines == SubSeq(pastedLines, 2, Len(pastedLines) - 1)
  IN IF Len(pastedLines) = 1
     THEN [ls EXCEPT ![lineIndex + 1] = firstLine \o afterCursor]
     ELSE PasteSplice(ls, lineIndex, firstLine, middleLines, lastLine)

\* a slip: the chords after the current line move down by one line only
PasteChordsByOne(cs, lineIndex, pastedText) ==
  MapSeq(cs, LAMBDA c : IF c.lineIndex > lineIndex
                        THEN [c EXCEPT !.lineIndex = c.lineIndex + 1] ELSE c)

\* handleLinePaste: chords after the current line move down by numNewLines
PasteChords(cs, lineIndex, pastedText) ==
  LET numNewLines == Len(SplitNewlines(pastedText)) - 1
  IN MapSeq(cs, LAMBDA c : IF c.lineIndex > lineIndex
                           THEN [c EXCEPT !.lineIndex = c.lineIndex + numNewLines] ELSE c)

\* ------------------------------------------------ LyricsEditor: sections
\* a slip: the header line is copied with the content
CopySectionWithHeader(txt, cs, sectionLineIndex) ==
  LET r == getSectionRange(txt, sectionLineIndex)
  IN [lines |-> SubSeq(SplitNL(txt), r.startLine + 1, r.endLine + 1),
      chords |-> MapSeq(SelectSeq(cs, LAMBDA c : c.lineIndex >= r.startLine
                                                 /\ c.lineIndex <= r.endLine),
                        LAMBDA c : [c EXCEPT !.lineIndex = c.lineIndex - r.startLine])]

\* handleCopySection: the content lines and their chords, rebased
CopySectionValue(txt, cs, sectionLineIndex) ==
  LET r == getSectionRange(txt, sectionLineIndex)
      contentStartLine == r.startLine + 1
  IN IF contentStartLine > r.endLine
     THEN [lines |-> <<>>, chords |-> <<>>]
     ELSE [lines |-> SubSeq(SplitNL(txt), contentStartLine + 1, r.endLine + 1),
           chords |-> MapSeq(SelectSeq(cs, LAMBDA c : c.lineIndex >= contentStartLine
                                                      /\ c.lineIndex <= r.endLine),
                             LAMBDA c : [c EXCEPT !.lineIndex = c.lineIndex - contentStartLine])]

\* handlePasteSection: newLines.splice(targetLineIndex + 1, 0, ...sectionLines)
PasteSectionLines(ls, targetLineIndex, sectionLines) ==
  Splice(ls, targetLineIndex + 1, 0, sectionLines)

\* handlePasteSection: the existing chords, shifted
PasteSectionShifted(cs, targetLineIndex, shiftAmount) ==
  MapSeq(cs, LAMBDA c : IF c.lineIndex >= targetLineIndex + 1
                        THEN [c EXCEPT !.lineIndex = c.lineIndex + shiftAmount] ELSE c)

\* a slip: the copies keep the ids of the copied chords
PasteSectionNewKeepId(sectionChords, targetLineIndex, n) ==
  [k \in 1..Len(sectionChords) |->
     [sectionChords[k] EXCEPT !.lineIndex = sectionChords[k].lineIndex + targetLineIndex + 1]]

\* handlePasteSection: the copies, the k-th with the k-th id generated
PasteSectionNew(sectionChords, targetLineIndex, n) ==
  [k \in 1..Len(sectionChords) |->
     [sectionChords[k] EXCEPT !.id = generateChordId(n + k - 1),
                              !.lineIndex = sectionChords[k].lineIndex + targetLineIndex + 1]]

PasteSectionChords(cs, targetLineIndex, section, n) ==
  PasteSectionShifted(cs, targetLineIndex, Len(section.lines))
    \o PasteSectionNew(section.chords, targetLineIndex, n)

\* handleDeleteSection: newLines.splice(startLine, linesToRemove)
DeleteSectionLines(txt, sectionLineIndex) ==
  LET r == getSectionRange(txt, sectionLineIndex)
  IN Splice(SplitNL(txt), r.startLine, r.endLine - r.startLine + 1, <<>>)

\* a slip: later chords move up by endLine - startLine
DeleteSectionChordsShort(txt, cs, sectionLineIndex) ==
  LET r == getSectionRange(txt, sectionLineIndex)
  IN MapSeq(SelectSeq(cs, LAMBDA c : c.lineIndex < r.startLine \/ c.lineIndex > r.endLine),
            LAMBDA c : IF c.lineIndex > r.endLine
                       THEN [c EXCEPT !.lineIndex = c.lineIndex - (r.endLine - r.startLine)] ELSE c)

\* handleDeleteSection: drop the section's chords, move later chords up
DeleteSectionChords(txt, cs, sectionLineIndex) ==
  LET r == getSectionRange(txt, sectionLineIndex)
      linesToRemove == r.endLine - r.startLine + 1
  IN MapSeq(SelectSeq(cs, LAMBDA c : c.lineIndex < r.startLine \/ c.lineIndex > r.endLine),
            LAMBDA c : IF c.lineIndex > r.endLine
                       THEN [c EXCEPT !.lineIndex = c.lineIndex - linesToRemove] ELSE c)

\* ------------------------------------------------- LyricsEditor: chords
\* a slip: the chord is put on the first character of the line
NewChordAtLineStart(n, symbol, pos) ==
  [id |-> generateChordId(n), chordSymbol |-> symbol,
   lineIndex |-> pos.lineIndex, charIndex |-> 0, offsetX |-> 0]

\* handleSelectChord, adding a chord at pendingChordPosition
NewChord(n, symbol, pos) ==
  [id |-> generateChordId(n), chordSymbol |-> symbol,
   lineIndex |-> pos.lineIndex, charIndex |-> pos.charIndex, offsetX |-> 0]

\* ------------------------------------------------------------- inputs
\* chords picked in the chord picker
Symbols == {"G"}

\* a PlacedChord; offsetX is the fine offset in pixels
Chord(id, symbol, lineIndex, charIndex, offsetX) ==
  [id |-> id, chordSymbol |-> symbol, lineIndex |-> lineIndex,
   charIndex |-> charIndex, offsetX |-> offsetX]

\* a ChordSheetDocument in storage with content in its left column
LeftDoc(id, leftText, leftChords, dir) ==
  [id |-> id, title |-> "Song",
   text |-> [c \in Columns |-> IF c = "left" THEN leftText ELSE <<>>],
   chords |-> [c \in Columns |-> IF c = "left" THEN leftChords ELSE <<>>],
   direction |-> dir, columnCount |-> 2]

\* doc.fontSize ?? 14
FontSizeOf(doc) == IF "fontSize" \in DOMAIN doc THEN doc.fontSize ELSE 14

\* documents in storage; their chord ids were generated in earlier sessions
\* "Hello\nworld"
HelloWorld ==
  LeftDoc("doc-1", <<"H", "e", "l", "l", "o", NL, "w", "o", "r", "l", "d">>,
          <<Chord(101, "G", 1, 0, 0)>>, "ltr")

\* "ab\n\nc"
Verses ==
  LeftDoc("doc-2", <<"a", "b", NL, NL, "c">>,
          <<Chord(102, "Am", 0, 1, 0), Chord(103, "C", 1, 0, 7), Chord(104, "D", 2, 0, 0)>>,
          "rtl")

\* "[A]\na\n[B]"
Sectioned ==
  LeftDoc("doc-3", <<"[", "A", "]", NL, "a", NL, "[", "B", "]">>,
          <<Chord(105, "Em", 1, 0, 7), Chord(106, "F", 2, 1, 0)>>, "ltr")

\* three columns, right to left: "[S]\np" in the left column, "q" in the middle
ThreeColumns ==
  [id |-> "doc-4", title |-> "Song",
   text |-> [c \in Columns |-> IF c = "left" THEN <<"[", "S", "]", NL, "p">>
                               ELSE IF c = "middle" THEN <<"q">> ELSE <<>>],
   chords |-> [c \in Columns |-> IF c = "left" THEN <<Chord(107, "B", 1, 0, 0)>>
                                 ELSE IF c = "middle" THEN <<Chord(108, "A", 0, 0, 0)>>
                                 ELSE <<>>],
   direction |-> "rtl", columnCount |-> 3]

\* three columns, left to right, with "q" in the middle column only
MiddleOnly ==
  [id |-> "doc-5", title |-> "Song",
   text |-> [c \in Columns |-> IF c = "middle" THEN <<"q">> ELSE <<>>],
   chords |-> [c \in Columns |-> <<>>],
   direction |-> "ltr", columnCount |-> 3]

\* ------------------------------------------------------ React plumbing
\* The setter calls a handler makes are applied together when the handler
\* returns (automatic batching); the last call on a state variable wins.
LastCall(calls, name, old) ==
  LET ks == {k \in 1..Len(calls) : calls[k].set = name}
  IN IF ks = {} THEN old ELSE calls[CHOOSE k \in ks : \A j \in ks : j <= k].val

Commit(col, calls) ==
  /\ text' = [text EXCEPT ![col] = LastCall(calls, "text", text[col])]
  /\ chords' = [chords EXCEPT ![col] = LastCall(calls, "chords", chords[col])]

\* The effects that run after a commit: the history effect (re-run when
\* title, a text, a chords array or historyIndex changed) and the
\* change-tracking effect.  flag is isUndoRedoRef.current as the handler
\* left it, unsaved is hasUnsavedChanges as the handler left it.
Effects(flag, histDeps, trackDeps, unsaved) ==
  /\ IF histDeps
     THEN /\ isUndoRedoRef' = FALSE
          /\ historyTimeout' = IF flag THEN <<>>
                               ELSE <<[state |-> Snapshot', historyIndex |-> historyIndex']>>
     ELSE /\ isUndoRedoRef' = flag
          /\ UNCHANGED historyTimeout
  /\ hasUnsavedChanges' = IF trackDeps /\ DocNonEmpty' THEN TRUE ELSE unsaved

ColumnEditLive ==
  /\ edits < MaxEdits
  /\ edits' = edits + 1
  /\ UNCHANGED <<title, direction, columnCount, historyIndex, currentDocId, autoSaved>>
  /\ history' = IF historyIndex >= 0 /\ historyIndex < Len(history)
                THEN [history EXCEPT ![historyIndex + 1] = Snapshot']
                ELSE history
  /\ Effects(isUndoRedoRef, TRUE, TRUE, hasUnsavedChanges)

\* an edit inside one column: nothing of App changes but text and chords
ColumnEdit ==
  /\ edits < MaxEdits
  /\ edits' = edits + 1
  /\ UNCHANGED <<title, direction, columnCount, history, historyIndex, currentDocId, autoSaved>>
  /\ Effects(isUndoRedoRef, TRUE, TRUE, hasUnsavedChanges)

\* the middle LyricsEditor is mounted only with three columns
Visible(col) == col # "middle" \/ columnCount = 3

\* the chord picker covers the page while it is open
DropdownOpen(col) == pendingChordPosition[col] # <<>> \/ editingChordId[col] # <<>>
NoDropdown == \A c \in Columns : ~DropdownOpen(c)

\* ------------------------------------------------------- line markers
\* Every line carries a marker; an edit moves the markers with the lines.
\* Marks(n) marks the n current lines by their index, a negative mark is on
\* a line the edit creates.  anchor maps the id of a chord to the current index of
\* the line the chord was placed on; a chord whose line is gone has no entry.
Marks(n) == [k \in 1..n |-> k - 1]
NewMarks(n) == [k \in 1..n |-> -k]

MoveAnchor(a, newMarks) ==
  [id \in {j \in DOMAIN a : \E k \in 1..Len(newMarks) : newMarks[k] = a[j]} |->
     (CHOOSE k \in 1..Len(newMarks) : newMarks[k] = a[id]) - 1]

AnchorOf(cs) ==
  [id \in {cs[k].id : k \in 1..Len(cs)} |->
     (CHOOSE c \in Range(cs) : c.id = id).lineIndex]

\* the record kept of the handler that ran last, opening and closing a
\* menu aside
Op(kind, col, lineIndex, n) == [kind |-> kind, col |-> col, lineIndex |-> lineIndex, n |-> n]
NoOp == Op("none", "left", 0, 0)

\* a handler that edits no line and is no Enter
Plain(kind, col, lineIndex) ==
  /\ lastOp' = Op(kind, col, lineIndex, 0)
  /\ beforeEnter' = <<>>
  /\ beforeUndo' = <<>>
  /\ dropped' = <<>>
  /\ pointer' = <<>>

\* ------------------------------------------------ bar chart: the types
\* A chord of a beat is <<>> for null or <<symbol>>.  A line is a record
\* of one shape for the three cases null, section and measures.
NoLine == [type |-> "none", id |-> 0, text |-> "", measures |-> <<>>]

createEmptyBeatHeld(position) == [position |-> position, chord |-> <<>>, isHold |-> TRUE]

createEmptyBeat(position) == [position |-> position, chord |-> <<>>, isHold |-> FALSE]

\* the ids of the create helpers are drawn from a counter: id is fresh
createEmptyMeasure(id) ==
  [id |-> id, beats |-> [p \in 1..4 |-> createEmptyBeat(p)], isEnding |-> FALSE]

createSectionLine(id, sectionText) ==
  [type |-> "section", id |-> id, text |-> sectionText, measures |-> <<>>]

\* the line takes id, its measures the measuresPerLine ids after it
createMeasureLine(id, measuresPerLine) ==
  [type |-> "measures", id |-> id, text |-> "",
   measures |-> [k \in 1..measuresPerLine |-> createEmptyMeasure(id + k)]]

createFullWidthRow(id, line) ==
  [id |-> id, layout |-> "full", leftLine |-> line, rightLine |-> NoLine]

createSplitRow(id, leftLine, rightLine) ==
  [id |-> id, layout |-> "split", leftLine |-> leftLine, rightLine |-> rightLine]

createDefaultBarChartDocument ==
  [title |-> "", direction |-> "ltr", rows |-> <<>>, measuresPerLine |-> 4]

\* --------------------------------------------------------------- Init
Init ==
  /\ title = ""
  /\ text = [c \in Columns |-> <<>>]
  /\ chords = [c \in Columns |-> <<>>]
  /\ direction = "ltr"
  /\ columnCount = 2
  /\ history = <<>>
  /\ historyIndex = -1
  /\ isUndoRedoRef = FALSE
  /\ historyTimeout = <<[state |-> EmptyDoc, historyIndex |-> -1]>>
  /\ hasUnsavedChanges = FALSE
  /\ currentDocId = <<>>
  /\ autoSaved = <<>>
  /\ copiedSection = <<>>
  /\ chordMode = [c \in Columns |-> FALSE]
  /\ pendingChordPosition = [c \in Columns |-> <<>>]
  /\ contextMenuChordId = [c \in Columns |-> <<>>]
  /\ selectedChordId = [c \in Columns |-> <<>>]
  /\ draggingChordId = [c \in Columns |-> <<>>]
  /\ dragStartX = [c \in Columns |-> 0]
  /\ dragStartOffset = [c \in Columns |-> 0]
  /\ document = createDefaultBarChartDocument
  /\ selectedMeasureId = <<>>
  /\ selectedBeat = <<>>
  /\ selectedRowId = <<>>
  /\ selectedSide = <<>>
  /\ showChordDropdown = FALSE
  /\ expandedMeasureIds = {}
  /\ nextBarId = 0
  /\ applied = [fn |-> "none"]
  /\ returned = <<>>
  /\ statusMessage = <<>>
  /\ pageFontSize = 14
  /\ showDeleteConfirm = [c \in Columns |-> <<>>]
  /\ editingLineIndex = [c \in Columns |-> <<>>]
  /\ editingChordId = [c \in Columns |-> <<>>]
  /\ lineIndicators = [c \in Columns |-> {}]
  /\ nextChordId = 0
  /\ edits = 0
  /\ anchor = [c \in Columns |-> <<>>]
  /\ lastOp = NoOp
  /\ beforeEnter = <<>>
  /\ beforeUndo = <<>>
  /\ pointer = <<>>
  /\ dropped = <<>>

\* ------------------------------------------ LyricsEditor: the handlers
\* a line input exists for a line being edited outside chord mode
\* the line input that has the focus: a page has one focused element, and an
\* input that loses the focus runs onBlur, setEditingLineIndex(null)
Focus(col, lineIndex) == [c \in Columns |-> IF c = col THEN <<lineIndex>> ELSE <<>>]

CanEdit(col, lineIndex) ==
  /\ Visible(col)
  /\ NoDropdown
  /\ ~chordMode[col]
  /\ lineIndex \in 0..(LineCount(col) - 1)

\* handleLineChange
HandleLineChange(col, lineIndex, newLineText) ==
  /\ CanEdit(col, lineIndex)
  /\ newLineText # Lines(col)[lineIndex + 1]
  /\ Commit(col, <<[set |-> "text",
                    val |-> JoinNL(LineChangeLines(Lines(col), lineIndex, newLineText))]>>)
  /\ ColumnEdit
  /\ UNCHANGED <<uiVars, nextChordId, anchor>>
  /\ Plain("change", col, lineIndex)
  /\ UNCHANGED dragVars
  /\ editingLineIndex' = Focus(col, lineIndex)
  /\ UNCHANGED <<showDeleteConfirm, editingChordId>>
  /\ UNCHANGED <<barVars, pureVars, indicatorVars, importVars>>

\* a slip: the branch calls onTextChange and leaves the chords alone
EnterCallsTextOnly(col, lineIndex) ==
  << [set |-> "text", val |-> JoinNL(EnterLines(Lines(col), lineIndex, <<>>))] >>

\* handleLineKeyDown, Enter: the setter calls of the branch
EnterCalls(col, lineIndex) ==
  << [set |-> "text", val |-> JoinNL(EnterLines(Lines(col), lineIndex, <<>>))],
     [set |-> "chords", val |-> EnterChords(chords[col], lineIndex)] >>

\* Enter with the cursor at offset selectionStart, which the branch does not read
HandleEnter(col, lineIndex, selectionStart) ==
  /\ CanEdit(col, lineIndex)
  /\ selectionStart \in 0..Len(Lines(col)[lineIndex + 1])
  /\ Commit(col, EnterCalls(col, lineIndex))
  /\ ColumnEdit
  /\ UNCHANGED <<uiVars, nextChordId>>
  /\ anchor' = [anchor EXCEPT ![col] =
                  MoveAnchor(@, EnterLines(Marks(LineCount(col)), lineIndex, -1))]
  /\ lastOp' = Op("enter", col, lineIndex, 1)
  /\ beforeEnter' = <<[text |-> text[col], chords |-> chords[col]]>>
  /\ beforeUndo' = <<>>
  /\ dropped' = <<>>
  /\ pointer' = <<>>
  /\ UNCHANGED dragVars
  /\ editingLineIndex' = Focus(col, lineIndex + 1)
  /\ UNCHANGED <<showDeleteConfirm, editingChordId>>
  /\ UNCHANGED <<barVars, pureVars, indicatorVars, importVars>>

\* handleLineKeyDown, Backspace: the setter calls of the branch
BackspaceCalls(col, lineIndex) ==
  << [set |-> "text", val |-> JoinNL(BackspaceLines(Lines(col), lineIndex))],
     [set |-> "chords", val |-> BackspaceChords(chords[col], lineIndex)] >>

\* Backspace in line lineIndex; outside the branch's guard the key is left
\* to the input, which has nothing to delete in an empty line 0
HandleBackspace(col, lineIndex) ==
  /\ CanEdit(col, lineIndex)
  /\ BackspaceGuard(Lines(col), lineIndex)
  /\ Commit(col, BackspaceCalls(col, lineIndex))
  /\ ColumnEdit
  /\ UNCHANGED <<uiVars, nextChordId>>
  /\ anchor' = [anchor EXCEPT ![col] =
                  MoveAnchor(@, BackspaceLines(Marks(LineCount(col)), lineIndex))]
  /\ lastOp' = Op("backspace", col, lineIndex, 1)
  /\ beforeEnter' = IF lastOp = Op("enter", col, lineIndex - 1, 1) THEN beforeEnter ELSE <<>>
  /\ beforeUndo' = <<>>
  /\ dropped' = <<>>
  /\ pointer' = <<>>
  /\ UNCHANGED dragVars
  /\ editingLineIndex' = Focus(col, lineIndex - 1)
  /\ UNCHANGED <<showDeleteConfirm, editingChordId>>
  /\ UNCHANGED <<barVars, pureVars, indicatorVars, importVars>>

\* handleLinePaste with text that holds a line break: the setter calls
PasteCalls(col, lineIndex, pastedText, selectionStart, selectionEnd) ==
  << [set |-> "text",
      val |-> JoinNL(PasteLines(Lines(col), lineIndex, pastedText, selectionStart, selectionEnd))] >>
  \o (IF Len(SplitNewlines(pastedText)) - 1 > 0
      THEN << [set |-> "chords", val |-> PasteChords(chords[col], lineIndex, pastedText)] >>
      ELSE <<>>)

HandleLinePaste(col, lineIndex, pastedText, selectionStart, selectionEnd) ==
  /\ CanEdit(col, lineIndex)
  /\ \E k \in 1..Len(pastedText) : pastedText[k] \in {NL, CR}
  /\ selectionStart \in 0..Len(Lines(col)[lineIndex + 1])
  /\ selectionEnd \in selectionStart..Len(Lines(col)[lineIndex + 1])
  /\ Commit(col, PasteCalls(col, lineIndex, pastedText, selectionStart, selectionEnd))
  /\ ColumnEdit
  /\ UNCHANGED <<uiVars, nextChordId>>
  /\ anchor' = [anchor EXCEPT ![col] =
                  MoveAnchor(@, PasteSplice(Marks(LineCount(col)), lineIndex, lineIndex,
                                            NewMarks(Len(SplitNewlines(pastedText)) - 2),
                                            -Len(SplitNewlines(pastedText))))]
  /\ lastOp' = Op("paste", col, lineIndex, Len(SplitNewlines(pastedText)) - 1)
  /\ beforeEnter' = <<>>
  /\ beforeUndo' = <<>>
  /\ dropped' = <<>>
  /\ pointer' = <<>>
  /\ UNCHANGED dragVars
  /\ editingLineIndex' = Focus(col, lineIndex + Len(SplitNewlines(pastedText)) - 1)
  /\ UNCHANGED <<showDeleteConfirm, editingChordId>>
  /\ UNCHANGED <<barVars, pureVars, indicatorVars, importVars>>

\* the click of a button bubbles to the document, where it closes the
\* context menus that are open
MenusClosed == contextMenuChordId' = [c \in Columns |-> <<>>]

\* toggleChordMode
ToggleChordMode(col) ==
  /\ Visible(col)
  /\ NoDropdown
  /\ chordMode' = [chordMode EXCEPT ![col] = ~@]
  /\ MenusClosed
  /\ UNCHANGED <<docVars, histVars, fileVars, copiedSection, pendingChordPosition,
                 nextChordId, edits, anchor>>
  /\ Plain("none", "left", 0)
  /\ selectedChordId' = [selectedChordId EXCEPT ![col] = <<>>]
  /\ editingLineIndex' = [editingLineIndex EXCEPT ![col] = <<>>]
  /\ UNCHANGED <<draggingChordId, dragStartX, dragStartOffset, showDeleteConfirm, editingChordId>>
  /\ UNCHANGED <<barVars, pureVars, indicatorVars, importVars>>

\* handleCharClick: a click on character charIndex of a line, in chord mode
HandleCharClick(col, lineIndex, charIndex) ==
  /\ Visible(col)
  /\ NoDropdown
  /\ chordMode[col]
  /\ lineIndex \in 0..(LineCount(col) - 1)
  /\ charIndex \in 0..(IF Lines(col)[lineIndex + 1] = <<>> THEN 0
                        ELSE Len(Lines(col)[lineIndex + 1]) - 1)
  /\ pendingChordPosition' = [pendingChordPosition EXCEPT ![col] =
                                <<[lineIndex |-> lineIndex, charIndex |-> charIndex]>>]
  /\ UNCHANGED <<docVars, histVars, fileVars, copiedSection, chordMode,
                 contextMenuChordId, nextChordId, edits, anchor>>
  /\ Plain("none", "left", 0)
  /\ selectedChordId' = [selectedChordId EXCEPT ![col] = <<>>]
  /\ UNCHANGED <<draggingChordId, dragStartX, dragStartOffset>>
  /\ UNCHANGED <<barVars, pureVars, indicatorVars, importVars, dialogVars>>

\* handleChordRowClick: charIndex = max(0, floor(clickX / charWidth))
HandleChordRowClick(col, lineIndex, charIndex) ==
  /\ Visible(col)
  /\ NoDropdown
  /\ chordMode[col]
  /\ lineIndex \in 0..(LineCount(col) - 1)
  /\ charIndex >= 0
  /\ pendingChordPosition' = [pendingChordPosition EXCEPT ![col] =
                                <<[lineIndex |-> lineIndex, charIndex |-> charIndex]>>]
  /\ UNCHANGED <<docVars, histVars, fileVars, copiedSection, chordMode,
                 contextMenuChordId, nextChordId, edits, anchor>>
  /\ Plain("none", "left", 0)
  /\ selectedChordId' = [selectedChordId EXCEPT ![col] = <<>>]
  /\ UNCHANGED <<draggingChordId, dragStartX, dragStartOffset>>
  /\ UNCHANGED <<barVars, pureVars, indicatorVars, importVars, dialogVars>>

\* handleSelectChord with a pending position: a new chord is added
\* chords.map(c => c.id === editingChordId ? { ...c, chordSymbol } : c)
ChangeSymbol(cs, id, symbol) ==
  [k \in 1..Len(cs) |-> IF cs[k].id = id THEN [cs[k] EXCEPT !.chordSymbol = symbol] ELSE cs[k]]

HandleSelectChord(col, symbol) ==
  /\ Visible(col)
  /\ DropdownOpen(col)
  /\ IF editingChordId[col] # <<>>
     THEN /\ Commit(col, <<[set |-> "chords",
                            val |-> ChangeSymbol(chords[col], editingChordId[col][1], symbol)]>>)
          /\ UNCHANGED <<nextChordId, anchor>>
          /\ Plain("changeChord", col, 0)
     ELSE /\ Commit(col, <<[set |-> "chords",
                            val |-> Append(chords[col],
                                           NewChord(nextChordId, symbol,
                                                    pendingChordPosition[col][1]))]>>)
          /\ nextChordId' = nextChordId + 1
          /\ anchor' = [anchor EXCEPT ![col] =
                          (generateChordId(nextChordId)
                             :> pendingChordPosition[col][1].lineIndex) @@ @]
          /\ Plain("place", col, pendingChordPosition[col][1].lineIndex)
  /\ ColumnEdit
  /\ pendingChordPosition' = [pendingChordPosition EXCEPT ![col] = <<>>]
  /\ editingChordId' = [editingChordId EXCEPT ![col] = <<>>]
  /\ UNCHANGED <<copiedSection, chordMode, contextMenuChordId>>
  /\ UNCHANGED dragVars
  /\ UNCHANGED <<showDeleteConfirm, editingLineIndex>>
  /\ UNCHANGED <<barVars, pureVars, indicatorVars, importVars>>

\* handleCloseDropdown
HandleCloseDropdown(col) ==
  /\ Visible(col)
  /\ DropdownOpen(col)
  /\ pendingChordPosition' = [pendingChordPosition EXCEPT ![col] = <<>>]
  /\ UNCHANGED <<docVars, histVars, fileVars, copiedSection, chordMode,
                 contextMenuChordId, nextChordId, edits, anchor>>
  /\ Plain("none", "left", 0)
  /\ UNCHANGED dragVars
  /\ editingChordId' = [editingChordId EXCEPT ![col] = <<>>]
  /\ UNCHANGED <<showDeleteConfirm, editingLineIndex>>
  /\ UNCHANGED <<barVars, pureVars, indicatorVars, importVars>>

\* ------------------------------------- LyricsEditor: a line's chords
\* the copiedChords prop: A4Page passes neither copiedChords nor
\* onCopiedChordsChange to its LyricsEditors, so the prop keeps its default,
\* null, and onCopiedChordsChange is undefined
copiedChords == <<>>
onCopiedChordsChange == FALSE

\* handlePasteChords: the chords of the other lines, then the copies
PasteChordsValue(cs, copied, targetLineIndex, n) ==
  SelectSeq(cs, LAMBDA c : c.lineIndex # targetLineIndex)
    \o [k \in 1..Len(copied) |->
          [copied[k] EXCEPT !.id = generateChordId(n + k - 1), !.lineIndex = targetLineIndex]]

\* handleCopyChords(lineIndex), from the Copy button of a hovered line or
\* Ctrl+C over it: without onCopiedChordsChange nothing is stored
HandleCopyChords(col, lineIndex) ==
  /\ Visible(col)
  /\ NoDropdown
  /\ ~chordMode[col]
  /\ lineIndex \in 0..(LineCount(col) - 1)
  /\ ~(Len(getChordsForLine(col, lineIndex)) > 0 /\ onCopiedChordsChange)
  /\ UNCHANGED <<docVars, histVars, fileVars, uiVars, nextChordId, edits, anchor>>
  /\ lastOp' = Op("copyChords", col, lineIndex, Len(getChordsForLine(col, lineIndex)))
  /\ beforeEnter' = <<>>
  /\ beforeUndo' = <<>>
  /\ dropped' = <<>>
  /\ pointer' = <<>>
  /\ UNCHANGED dragVars
  /\ UNCHANGED <<barVars, pureVars, indicatorVars, importVars, dialogVars>>

\* Ctrl+V over line lineIndex: handlePasteChords(lineIndex) runs only with
\* copiedChords set, and returns at once when copiedChords is empty
HandlePasteKey(col, lineIndex) ==
  /\ Visible(col)
  /\ NoDropdown
  /\ lineIndex \in 0..(LineCount(col) - 1)
  /\ IF copiedChords # <<>>
     THEN /\ Commit(col, <<[set |-> "chords",
                            val |-> PasteChordsValue(chords[col], copiedChords,
                                                     lineIndex, nextChordId)]>>)
          /\ ColumnEdit
          /\ nextChordId' = nextChordId + Len(copiedChords)
          /\ UNCHANGED uiVars
          /\ anchor' = [anchor EXCEPT ![col] = AnchorOf(chords'[col])]
     ELSE UNCHANGED <<docVars, histVars, fileVars, uiVars, nextChordId, edits, anchor>>
  /\ lastOp' = Op("pasteChords", col, lineIndex, Len(copiedChords))
  /\ beforeEnter' = <<>>
  /\ beforeUndo' = <<>>
  /\ dropped' = <<>>
  /\ pointer' = <<>>
  /\ UNCHANGED dragVars
  /\ UNCHANGED <<barVars, pureVars, indicatorVars, importVars, dialogVars>>

\* ------------------------------------------- LyricsEditor: chord drag
\* Pixel lengths (clientX, offsetX, widths) are kept in tenths of a pixel,
\* which makes charWidth = fontSize * 0.6 a whole number.
Px(n) == 10 * n

\* A4Page gives its editors no fontSize: the default of the prop applies
fontSize == 14
charWidth == fontSize * 6
padding == Px(5)

\* editorRef.current.offsetWidth, the width of a column of the page
columnWidth == Px(300)

Max(a, b) == IF a >= b THEN a ELSE b
Min(a, b) == IF a <= b THEN a ELSE b

\* chords.find(c => c.id === id): the index of the chord, 0 for undefined
FindChord(cs, id) ==
  IF \E k \in 1..Len(cs) : cs[k].id = id
  THEN CHOOSE k \in 1..Len(cs) : cs[k].id = id /\ \A j \in 1..(k - 1) : cs[j].id # id
  ELSE 0

\* chords.map(c => c.id === id ? { ...c, offsetX } : c)
SetOffsetX(cs, id, offsetX) ==
  [k \in 1..Len(cs) |-> IF cs[k].id = id THEN [cs[k] EXCEPT !.offsetX = offsetX] ELSE cs[k]]

\* dragStartOffset + adjustedDelta
AdjustedOffset(dir, startOffset, startX, clientX) ==
  LET deltaX == clientX - startX
      adjustedDelta == IF dir = "rtl" THEN -deltaX ELSE deltaX
  IN startOffset + adjustedDelta

ConstrainUpperOnly(chord, newOffset) ==
  Min(columnWidth - chord.charIndex * charWidth + padding, newOffset)

\* Math.max(minOffset, Math.min(maxOffset, newOffset))
Constrain(chord, newOffset) ==
  LET charPosition == chord.charIndex * charWidth
      minOffset == -charPosition - padding
      maxOffset == columnWidth - charPosition + padding
  IN Max(minOffset, Min(maxOffset, newOffset))

\* the array handleMouseMove and handleTouchMove hand to onChordsChange
MoveValue(cs, id, dir, startOffset, startX, clientX) ==
  LET newOffset == AdjustedOffset(dir, startOffset, startX, clientX)
      k == FindChord(cs, id)
  IN SetOffsetX(cs, id, IF k # 0 THEN Constrain(cs[k], newOffset) ELSE newOffset)

CancelValueKeep(cs, id, startOffset) == cs

\* the array handleKeyDown hands to onChordsChange on Escape
CancelValue(cs, id, startOffset) == SetOffsetX(cs, id, startOffset)

\* a chord is shown on the chord row of its line
ChordShown(col, k) ==
  /\ Visible(col)
  /\ k \in 1..Len(chords[col])
  /\ chords[col][k].lineIndex \in 0..(LineCount(col) - 1)

\* handleChordDragStart and handleChordTouchStart set the same four states
DragStart(col, k, clientX) ==
  /\ ChordShown(col, k)
  /\ NoDropdown
  /\ draggingChordId' = [draggingChordId EXCEPT ![col] = <<chords[col][k].id>>]
  /\ dragStartX' = [dragStartX EXCEPT ![col] = clientX]
  /\ dragStartOffset' = [dragStartOffset EXCEPT ![col] = chords[col][k].offsetX]
  /\ selectedChordId' = [selectedChordId EXCEPT ![col] = <<chords[col][k].id>>]
  /\ UNCHANGED <<docVars, histVars, fileVars, uiVars, nextChordId, edits, anchor>>
  /\ lastOp' = Op("dragStart", col, chords[col][k].lineIndex, clientX)
  /\ beforeEnter' = <<>>
  /\ beforeUndo' = <<>>
  /\ dropped' = <<>>
  /\ pointer' = <<[col |-> col, id |-> chords[col][k].id,
                    was |-> selectedChordId[col] = <<chords[col][k].id>>, up |-> FALSE]>>
  /\ UNCHANGED <<barVars, pureVars, indicatorVars, importVars, dialogVars>>

\* handleChordDragStart: mousedown on a chord
HandleChordDragStart(col, k, clientX) == DragStart(col, k, clientX)

\* handleChordTouchStart: touchstart on a chord, clientX of touches[0]
HandleChordTouchStart(col, k, clientX) == DragStart(col, k, clientX)

\* The drag effect listens on the document only while draggingChordId is
\* set; without the listeners a move, a release or a key changes nothing.
Dragging(col) == Visible(col) /\ draggingChordId[col] # <<>>

DragMoveListening(col, clientX) ==
  /\ IF Visible(col) /\ selectedChordId[col] # <<>>
     THEN /\ Commit(col, <<[set |-> "chords",
                            val |-> MoveValue(chords[col], selectedChordId[col][1], direction,
                                              dragStartOffset[col], dragStartX[col], clientX)]>>)
          /\ ColumnEdit
          /\ UNCHANGED <<uiVars, nextChordId, anchor>>
     ELSE UNCHANGED <<docVars, histVars, fileVars, uiVars, nextChordId, edits, anchor>>
  /\ UNCHANGED dragVars
  /\ lastOp' = Op("dragMove", col, 0, clientX)
  /\ beforeEnter' = <<>>
  /\ beforeUndo' = <<>>
  /\ dropped' = <<>>
  /\ pointer' = <<>>
  /\ UNCHANGED <<barVars, pureVars, indicatorVars, importVars, dialogVars>>

DragMove(col, clientX) ==
  /\ IF Dragging(col)
     THEN /\ Commit(col, <<[set |-> "chords",
                            val |-> MoveValue(chords[col], draggingChordId[col][1], direction,
                                              dragStartOffset[col], dragStartX[col], clientX)]>>)
          /\ ColumnEdit
          /\ UNCHANGED <<uiVars, nextChordId, anchor>>
     ELSE UNCHANGED <<docVars, histVars, fileVars, uiVars, nextChordId, edits, anchor>>
  /\ UNCHANGED dragVars
  /\ lastOp' = Op("dragMove", col, 0, clientX)
  /\ beforeEnter' = <<>>
  /\ beforeUndo' = <<>>
  /\ dropped' = <<>>
  /\ pointer' = <<>>
  /\ UNCHANGED <<barVars, pureVars, indicatorVars, importVars, dialogVars>>

\* handleMouseMove: mousemove on the document
HandleMouseMove(col, clientX) == DragMove(col, clientX)

\* handleTouchMove: touchmove on the document with a touch left
HandleTouchMove(col, clientX) == DragMove(col, clientX)

\* handleMouseUp and handleTouchEnd: every editor with a drag ends it
DragEnd ==
  /\ draggingChordId' = [c \in Columns |-> <<>>]
  /\ UNCHANGED <<selectedChordId, dragStartX, dragStartOffset>>
  /\ UNCHANGED <<docVars, histVars, fileVars, uiVars, nextChordId, edits, anchor>>
  /\ lastOp' = Op("dragEnd", "left", 0, 0)
  /\ beforeEnter' = <<>>
  /\ beforeUndo' = <<>>
  /\ dropped' = <<>>
  /\ pointer' = IF pointer # <<>> /\ ~pointer[1].up
                 THEN <<[pointer[1] EXCEPT !.up = TRUE]>> ELSE <<>>
  /\ UNCHANGED <<barVars, pureVars, indicatorVars, importVars, dialogVars>>

\* handleMouseUp: mouseup on the document
HandleMouseUp == DragEnd

\* handleTouchEnd: touchend or touchcancel on the document
HandleTouchEnd == DragEnd

\* Escape on the document: the drag effect's handleKeyDown of the editor
\* of col, and the keyboard effect's handleKeyDown of every mounted editor
HandleEscapeKey(col) ==
  /\ IF Dragging(col)
     THEN /\ Commit(col, <<[set |-> "chords",
                            val |-> CancelValue(chords[col], draggingChordId[col][1],
                                                dragStartOffset[col])]>>)
          /\ ColumnEdit
     ELSE UNCHANGED <<docVars, histVars, fileVars, edits>>
  /\ draggingChordId' = [draggingChordId EXCEPT ![col] = <<>>]
  /\ selectedChordId' = [c \in Columns |-> IF Visible(c) THEN <<>> ELSE selectedChordId[c]]
  /\ chordMode' = [c \in Columns |-> IF Visible(c) THEN FALSE ELSE chordMode[c]]
  /\ pendingChordPosition' = [c \in Columns |-> IF Visible(c) THEN <<>> ELSE pendingChordPosition[c]]
  /\ contextMenuChordId' = [c \in Columns |-> IF Visible(c) THEN <<>> ELSE contextMenuChordId[c]]
  /\ UNCHANGED <<copiedSection, dragStartX, dragStartOffset, nextChordId, anchor>>
  /\ lastOp' = IF Dragging(col) /\ FindChord(chords[col], draggingChordId[col][1]) # 0
               THEN LET c == chords[col][FindChord(chords[col], draggingChordId[col][1])]
                    IN Op("dragCancel", col, c.lineIndex, c.offsetX)
               ELSE Op("escape", col, 0, 0)
  /\ beforeEnter' = <<>>
  /\ beforeUndo' = <<>>
  /\ dropped' = <<>>
  /\ pointer' = <<>>
  /\ showDeleteConfirm' = [c \in Columns |-> IF Visible(c) THEN <<>> ELSE showDeleteConfirm[c]]
  /\ editingChordId' = [c \in Columns |-> IF Visible(c) THEN <<>> ELSE editingChordId[c]]
  /\ UNCHANGED editingLineIndex
  /\ UNCHANGED <<barVars, pureVars, indicatorVars, importVars>>

\* handleAddLine: text + '\n'; the area shows outside chord mode under a
\* non-empty last line
HandleAddLine(col) ==
  /\ Visible(col)
  /\ NoDropdown
  /\ ~chordMode[col]
  /\ Lines(col)[LineCount(col)] # <<>>
  /\ Commit(col, <<[set |-> "text", val |-> text[col] \o <<NL>>]>>)
  /\ ColumnEdit
  /\ MenusClosed
  /\ UNCHANGED <<copiedSection, chordMode, pendingChordPosition, nextChordId, anchor>>
  /\ Plain("addLine", col, LineCount(col) - 1)
  /\ UNCHANGED dragVars
  /\ editingLineIndex' = Focus(col, LineCount(col))
  /\ UNCHANGED <<showDeleteConfirm, editingChordId>>
  /\ UNCHANGED <<barVars, pureVars, indicatorVars, importVars>>

\* handleAddChordOnlyLine: text.endsWith('\n') ? text + '\n' : text + '\n\n'
AddChordOnlyLineText(txt) ==
  IF txt # <<>> /\ txt[Len(txt)] = NL THEN txt \o <<NL>> ELSE txt \o <<NL, NL>>

HandleAddChordOnlyLine(col) ==
  /\ Visible(col)
  /\ NoDropdown
  /\ chordMode[col]
  /\ Commit(col, <<[set |-> "text", val |-> AddChordOnlyLineText(text[col])]>>)
  /\ ColumnEdit
  /\ MenusClosed
  /\ UNCHANGED <<copiedSection, chordMode, pendingChordPosition, nextChordId, anchor>>
  /\ Plain("addLine", col, LineCount(col) - 1)
  /\ UNCHANGED dragVars
  /\ UNCHANGED <<barVars, pureVars, indicatorVars, importVars, dialogVars>>

\* handleSectionContextMenu: right-click on a section line
HandleSectionContextMenu(col, lineIndex) ==
  /\ Visible(col)
  /\ NoDropdown
  /\ lineIndex \in 0..(LineCount(col) - 1)
  /\ isSectionLine(Lines(col)[lineIndex + 1])
  /\ contextMenuChordId' = [contextMenuChordId EXCEPT ![col] = <<lineIndex>>]
  /\ UNCHANGED <<docVars, histVars, fileVars, copiedSection, chordMode,
                 pendingChordPosition, nextChordId, edits, anchor, lastOp>>
  /\ beforeEnter' = <<>>
  /\ beforeUndo' = <<>>
  /\ dropped' = <<>>
  /\ pointer' = <<>>
  /\ UNCHANGED dragVars
  /\ UNCHANGED <<barVars, pureVars, indicatorVars, importVars, dialogVars>>

\* closeContextMenu, on a click outside the menu
CloseContextMenu(col) ==
  /\ Visible(col)
  /\ contextMenuChordId[col] # <<>>
  /\ contextMenuChordId' = [contextMenuChordId EXCEPT ![col] = <<>>]
  /\ UNCHANGED <<docVars, histVars, fileVars, copiedSection, chordMode,
                 pendingChordPosition, nextChordId, edits, anchor, lastOp>>
  /\ beforeEnter' = <<>>
  /\ beforeUndo' = <<>>
  /\ dropped' = <<>>
  /\ pointer' = <<>>
  /\ UNCHANGED dragVars
  /\ UNCHANGED <<barVars, pureVars, indicatorVars, importVars, dialogVars>>

SectionMenuOpen(col) ==
  /\ Visible(col)
  /\ NoDropdown
  /\ contextMenuChordId[col] # <<>>
  /\ contextMenuChordId[col][1] >= 0

\* "Copy Section": handleCopySection(lineIndex), then the menu closes
HandleCopySection(col) ==
  /\ SectionMenuOpen(col)
  /\ copiedSection' = <<CopySectionValue(text[col], chords[col], contextMenuChordId[col][1])>>
  /\ contextMenuChordId' = [contextMenuChordId EXCEPT ![col] = <<>>]
  /\ UNCHANGED <<docVars, histVars, fileVars, chordMode, pendingChordPosition,
                 nextChordId, edits, anchor>>
  /\ Plain("copySection", col, contextMenuChordId[col][1])
  /\ UNCHANGED dragVars
  /\ UNCHANGED <<barVars, pureVars, indicatorVars, importVars, dialogVars>>

\* handlePasteSection: the setter calls
PasteSectionCalls(col, targetLineIndex, section, n) ==
  << [set |-> "text", val |-> JoinNL(PasteSectionLines(Lines(col), targetLineIndex, section.lines))],
     [set |-> "chords", val |-> PasteSectionChords(chords[col], targetLineIndex, section, n)] >>

\* "Paste Section Here": handlePasteSection(lineIndex), then the menu closes
HandlePasteSection(col) ==
  LET target == contextMenuChordId[col][1]
      section == copiedSection[1]
  IN /\ SectionMenuOpen(col)
     /\ copiedSection # <<>>
     /\ Commit(col, PasteSectionCalls(col, target, section, nextChordId))
     /\ ColumnEdit
     /\ nextChordId' = nextChordId + Len(section.chords)
     /\ contextMenuChordId' = [contextMenuChordId EXCEPT ![col] = <<>>]
     /\ UNCHANGED <<copiedSection, chordMode, pendingChordPosition>>
     /\ anchor' = [anchor EXCEPT ![col] =
                     AnchorOf(PasteSectionNew(section.chords, target, nextChordId))
                     @@ MoveAnchor(@, PasteSectionLines(Marks(LineCount(col)), target,
                                                        NewMarks(Len(section.lines))))]
     /\ lastOp' = Op("pasteSection", col, target, Len(section.lines))
     /\ beforeEnter' = <<>>
     /\ beforeUndo' = <<>>
     /\ dropped' = <<>>
     /\ pointer' = <<>>
     /\ UNCHANGED dragVars
     /\ UNCHANGED <<barVars, pureVars, indicatorVars, importVars, dialogVars>>

\* handleDeleteSection: the setter calls
DeleteSectionCalls(col, sectionLineIndex) ==
  << [set |-> "text", val |-> JoinNL(DeleteSectionLines(text[col], sectionLineIndex))],
     [set |-> "chords", val |-> DeleteSectionChords(text[col], chords[col], sectionLineIndex)] >>

\* "Delete Section": handleDeleteSection(lineIndex), then the menu closes
HandleDeleteSection(col) ==
  LET sectionLineIndex == contextMenuChordId[col][1]
      r == getSectionRange(text[col], sectionLineIndex)
  IN /\ SectionMenuOpen(col)
     /\ Commit(col, DeleteSectionCalls(col, sectionLineIndex))
     /\ ColumnEdit
     /\ contextMenuChordId' = [contextMenuChordId EXCEPT ![col] = <<>>]
     /\ UNCHANGED <<copiedSection, chordMode, pendingChordPosition, nextChordId>>
     /\ anchor' = [anchor EXCEPT ![col] =
                     MoveAnchor(@, Splice(Marks(LineCount(col)), r.startLine,
                                          r.endLine - r.startLine + 1, <<>>))]
     /\ lastOp' = Op("deleteSection", col, sectionLineIndex, r.endLine - r.startLine + 1)
     /\ beforeEnter' = <<>>
     /\ beforeUndo' = <<>>
     /\ dropped' = <<>>
     /\ pointer' = <<>>
     /\ UNCHANGED dragVars
     /\ UNCHANGED <<barVars, pureVars, indicatorVars, importVars, dialogVars>>

\* ------------------------------------------------------ App: documents
\* every LyricsEditor re-anchors to the chords it is handed
Reanchor == anchor' = [c \in Columns |-> AnchorOf(chords'[c])]

\* a click on the toolbar or in a dialog reaches the document, which closes
\* every open context menu; the state of the middle LyricsEditor is lost
\* when it unmounts
ToolbarClick(count) ==
  /\ chordMode' = [chordMode EXCEPT !["middle"] = IF count = 3 THEN @ ELSE FALSE]
  /\ pendingChordPosition' = [pendingChordPosition EXCEPT !["middle"] = IF count = 3 THEN @ ELSE <<>>]
  /\ MenusClosed
  /\ selectedChordId' = [selectedChordId EXCEPT !["middle"] = IF count = 3 THEN @ ELSE <<>>]
  /\ draggingChordId' = [draggingChordId EXCEPT !["middle"] = IF count = 3 THEN @ ELSE <<>>]
  /\ dragStartX' = [dragStartX EXCEPT !["middle"] = IF count = 3 THEN @ ELSE 0]
  /\ dragStartOffset' = [dragStartOffset EXCEPT !["middle"] = IF count = 3 THEN @ ELSE 0]
  /\ showDeleteConfirm' = [showDeleteConfirm EXCEPT !["middle"] = IF count = 3 THEN @ ELSE <<>>]
  /\ editingChordId' = [editingChordId EXCEPT !["middle"] = IF count = 3 THEN @ ELSE <<>>]
  /\ editingLineIndex' = [c \in Columns |-> <<>>]

\* handleLoadDocument
HandleLoadDocument(doc) ==
  /\ NoDropdown
  /\ title' = doc.title
  /\ text' = doc.text
  /\ chords' = doc.chords
  /\ direction' = doc.direction
  /\ columnCount' = doc.columnCount
  /\ currentDocId' = <<doc.id>>
  /\ autoSaved' = <<>>
  /\ UNCHANGED <<history, historyIndex>>
  /\ Effects(isUndoRedoRef, TRUE, TRUE, FALSE)
  /\ ToolbarClick(doc.columnCount)
  /\ edits < MaxEdits
  /\ edits' = edits + 1
  /\ UNCHANGED <<copiedSection, nextChordId>>
  /\ Reanchor
  /\ Plain("load", "left", 0)
  /\ UNCHANGED <<barVars, pureVars, indicatorVars>>
  /\ statusMessage' = <<"Document loaded successfully">>
  /\ pageFontSize' = FontSizeOf(doc)

\* toggleColumnCount, 2 to 3: the second column moves to the middle
SecondColumn(dir) == IF dir = "ltr" THEN "right" ELSE "left"

SpreadColumns(dir, f) == [f EXCEPT !["middle"] = f[SecondColumn(dir)], ![SecondColumn(dir)] = <<>>]

\* toggleColumnCount, 3 to 2: middleColumnText + (text ? '\n' + text : '')
MergeText(middleText, columnText) ==
  middleText \o (IF columnText # <<>> THEN <<NL>> \o columnText ELSE <<>>)

\* toggleColumnCount, 3 to 2: [...middleColumnChords, ...adjusted]
MergeChords(middleText, middleChords, columnChords) ==
  LET middleLineCount == Len(SplitNL(middleText))
  IN middleChords \o MapSeq(columnChords,
                            LAMBDA c : [c EXCEPT !.lineIndex = c.lineIndex + middleLineCount])

MergedText(dir, txt) ==
  IF Trim(txt["middle"]) # <<>>
  THEN [txt EXCEPT ![SecondColumn(dir)] = MergeText(txt["middle"], txt[SecondColumn(dir)]),
                   !["middle"] = <<>>]
  ELSE [txt EXCEPT !["middle"] = <<>>]

MergedChords(dir, txt, cs) ==
  IF Trim(txt["middle"]) # <<>>
  THEN [cs EXCEPT ![SecondColumn(dir)] = MergeChords(txt["middle"], cs["middle"], cs[SecondColumn(dir)]),
                  !["middle"] = <<>>]
  ELSE [cs EXCEPT !["middle"] = <<>>]

\* toggleColumnCount
ToggleColumnCount ==
  /\ NoDropdown
  /\ edits < MaxEdits
  /\ edits' = edits + 1
  /\ columnCount' = IF columnCount = 2 THEN 3 ELSE 2
  /\ text' = IF columnCount = 2 THEN SpreadColumns(direction, text)
             ELSE MergedText(direction, text)
  /\ chords' = IF columnCount = 2 THEN SpreadColumns(direction, chords)
               ELSE MergedChords(direction, text, chords)
  /\ UNCHANGED <<title, direction, history, historyIndex, currentDocId, autoSaved>>
  /\ Effects(isUndoRedoRef, TRUE, TRUE, hasUnsavedChanges)
  /\ ToolbarClick(columnCount')
  /\ UNCHANGED <<copiedSection, nextChordId>>
  /\ Reanchor
  /\ Plain("toggleColumns", SecondColumn(direction), 0)
  /\ UNCHANGED <<barVars, pureVars, indicatorVars, importVars>>

\* toggleDirection
ToggleDirection ==
  /\ NoDropdown
  /\ direction' = IF direction = "ltr" THEN "rtl" ELSE "ltr"
  /\ UNCHANGED <<title, text, chords, columnCount, history, historyIndex, currentDocId, autoSaved>>
  /\ Effects(isUndoRedoRef, FALSE, TRUE, hasUnsavedChanges)
  /\ UNCHANGED <<uiVars, nextChordId, edits, anchor>>
  /\ Plain("none", "left", 0)
  /\ UNCHANGED dragVars
  /\ UNCHANGED <<barVars, pureVars, indicatorVars, importVars, dialogVars>>

\* -------------------------------------------------------- App: history
\* array.slice(-n)
LastN(s, n) == IF Len(s) <= n THEN s ELSE SubSeq(s, Len(s) - n + 1, Len(s))

PushHistoryKeepOldest(prev, currentState, closureIndex) ==
  LET newHistory == SliceTo(prev, IF closureIndex + 1 > Len(prev) THEN Len(prev)
                                  ELSE closureIndex + 1)
  IN IF newHistory # <<>> /\ newHistory[Len(newHistory)] = currentState
     THEN prev
     ELSE IF Len(newHistory) < MAX_HISTORY_SIZE
          THEN Append(newHistory, currentState)
          ELSE newHistory

\* the setHistory updater of the debounced snapshot: prev and the closure's
\* currentState and historyIndex give the new history
PushHistory(prev, currentState, closureIndex) ==
  LET newHistory == SliceTo(prev, IF closureIndex + 1 > Len(prev) THEN Len(prev)
                                  ELSE closureIndex + 1)
  IN IF newHistory # <<>> /\ newHistory[Len(newHistory)] = currentState
     THEN prev
     ELSE LastN(Append(newHistory, currentState), MAX_HISTORY_SIZE)

\* the setHistory updater returns prev, and leaves historyIndex alone, when
\* the state to record is the last state of the truncated history
Identical(prev, currentState, closureIndex) ==
  LET newHistory == SliceTo(prev, IF closureIndex + 1 > Len(prev) THEN Len(prev)
                                  ELSE closureIndex + 1)
  IN newHistory # <<>> /\ newHistory[Len(newHistory)] = currentState

\* a slip: the snapshot is put after the last entry, the redo entries stay
HistoryTimeoutKeepsRedo ==
  /\ historyTimeout # <<>>
  /\ LET c == historyTimeout[1]
         updated == PushHistory(history, c.state, Len(history) - 1)
     IN /\ history' = updated
        /\ historyIndex' = IF Identical(history, c.state, c.historyIndex) THEN historyIndex
                           ELSE Len(updated) - 1
  /\ UNCHANGED <<docVars, fileVars, uiVars, nextChordId, edits, anchor>>
  /\ isUndoRedoRef' = FALSE
  /\ historyTimeout' = IF historyIndex' # historyIndex /\ ~isUndoRedoRef
                       THEN <<[state |-> Snapshot, historyIndex |-> historyIndex']>>
                       ELSE <<>>
  /\ UNCHANGED <<lastOp, beforeEnter, beforeUndo, pointer>>
  /\ dropped' = IF \/ Identical(history, historyTimeout[1].state, historyTimeout[1].historyIndex)
                    \/ Len(history') = Len(history) + 1
                 THEN <<>> ELSE <<Len(history) - Len(history') + 1>>
  /\ UNCHANGED dragVars
  /\ UNCHANGED <<barVars, pureVars, indicatorVars, importVars, dialogVars>>

\* the 300 ms timer of the history effect fires
HistoryTimeoutFires ==
  /\ historyTimeout # <<>>
  /\ LET c == historyTimeout[1]
         updated == PushHistory(history, c.state, c.historyIndex)
     IN /\ history' = updated
        /\ historyIndex' = IF Identical(history, c.state, c.historyIndex) THEN historyIndex
                           ELSE Len(updated) - 1
  /\ UNCHANGED <<docVars, fileVars, uiVars, nextChordId, edits, anchor>>
  /\ isUndoRedoRef' = FALSE
  /\ historyTimeout' = IF historyIndex' # historyIndex /\ ~isUndoRedoRef
                       THEN <<[state |-> Snapshot, historyIndex |-> historyIndex']>>
                       ELSE <<>>
  /\ UNCHANGED <<lastOp, beforeEnter, beforeUndo, pointer>>
  /\ dropped' = IF \/ Identical(history, historyTimeout[1].state, historyTimeout[1].historyIndex)
                    \/ Len(history') = Len(history) + 1
                 THEN <<>> ELSE <<Len(history) - Len(history') + 1>>
  /\ UNCHANGED dragVars
  /\ UNCHANGED <<barVars, pureVars, indicatorVars, importVars, dialogVars>>

\* a slip: undo steps back in the history and leaves the document alone
HandleUndoIndexOnly ==
  /\ historyIndex > 0
  /\ historyIndex' = historyIndex - 1
  /\ UNCHANGED <<docVars, history, currentDocId, autoSaved>>
  /\ Effects(TRUE, TRUE, FALSE, hasUnsavedChanges)
  /\ UNCHANGED <<uiVars, nextChordId, edits, anchor>>
  /\ lastOp' = Op("undo", "left", 0, 0)
  /\ beforeEnter' = <<>>
  /\ beforeUndo' = <<Snapshot>>
  /\ dropped' = <<>>
  /\ pointer' = <<>>
  /\ UNCHANGED dragVars
  /\ UNCHANGED <<barVars, pureVars, indicatorVars, importVars, dialogVars>>

\* handleUndo
HandleUndo ==
  /\ historyIndex > 0
  /\ LET prevState == history[historyIndex]
     IN /\ title' = prevState.title
        /\ text' = prevState.text
        /\ chords' = prevState.chords
  /\ historyIndex' = historyIndex - 1
  /\ UNCHANGED <<direction, columnCount, history, currentDocId, autoSaved>>
  /\ Effects(TRUE, TRUE, Snapshot' # Snapshot, hasUnsavedChanges)
  /\ UNCHANGED <<uiVars, nextChordId, edits>>
  /\ Reanchor
  /\ lastOp' = Op("undo", "left", 0, 0)
  /\ beforeEnter' = <<>>
  /\ beforeUndo' = <<Snapshot>>
  /\ dropped' = <<>>
  /\ pointer' = <<>>
  /\ UNCHANGED dragVars
  /\ UNCHANGED <<barVars, pureVars, indicatorVars, importVars, dialogVars>>

\* handleRedo
HandleRedo ==
  /\ historyIndex < Len(history) - 1
  /\ LET nextState == history[historyIndex + 2]
     IN /\ title' = nextState.title
        /\ text' = nextState.text
        /\ chords' = nextState.chords
  /\ historyIndex' = historyIndex + 1
  /\ UNCHANGED <<direction, columnCount, history, currentDocId, autoSaved>>
  /\ Effects(TRUE, TRUE, Snapshot' # Snapshot, hasUnsavedChanges)
  /\ UNCHANGED <<uiVars, nextChordId, edits>>
  /\ Reanchor
  /\ Plain("redo", "left", 0)
  /\ UNCHANGED dragVars
  /\ UNCHANGED <<barVars, pureVars, indicatorVars, importVars, dialogVars>>

\* checkAutoSave, on a tick of the 30 s interval at least 5 s after the last
\* change: the 300 ms history timer of that change has fired by then
CheckAutoSave ==
  /\ hasUnsavedChanges
  /\ historyTimeout = <<>>
  /\ autoSaved' = <<[title |-> title, text |-> text, chords |-> chords,
                     direction |-> direction, columnCount |-> columnCount]>>
  /\ autoSaved' # autoSaved
  /\ UNCHANGED <<docVars, histVars, hasUnsavedChanges, currentDocId, uiVars,
                 nextChordId, edits, ghostVars>>
  /\ UNCHANGED dragVars
  /\ UNCHANGED <<barVars, pureVars, indicatorVars, dialogVars>>
  /\ statusMessage' = <<"Auto-saved">>
  /\ UNCHANGED pageFontSize

\* ---------------------------------------- BarChartEditor: the handlers
\* measures.findIndex(m => m.id === measureId), 0 for -1
FindMeasure(measures, measureId) ==
  IF \E k \in 1..Len(measures) : measures[k].id = measureId
  THEN CHOOSE k \in 1..Len(measures) :
         measures[k].id = measureId /\ \A j \in 1..(k - 1) : measures[j].id # measureId
  ELSE 0

RECURSIVE HoldLoop(_, _, _)
HoldLoopKeep(newBeats, i, lastChordIndex) == newBeats

\* the loop "Update hold markers": i runs over 0..3, lastChordIndex is the
\* index of the last beat seen with a chord, -1 for none
HoldLoop(newBeats, i, lastChordIndex) ==
  IF i >= 4 THEN newBeats
  ELSE IF newBeats[i + 1].chord # <<>>
       THEN HoldLoop([newBeats EXCEPT ![i + 1].isHold = FALSE], i + 1, i)
       ELSE HoldLoop([newBeats EXCEPT ![i + 1].isHold = (lastChordIndex >= 0)],
                     i + 1, lastChordIndex)

\* the beats updateMeasureBeat gives the measure
UpdateBeats(beats, beatPosition, chordSymbol) ==
  HoldLoop([beats EXCEPT ![beatPosition].chord = chordSymbol,
                         ![beatPosition].isHold = FALSE], 0, -1)

updateMeasureBeat(line, measureId, beatPosition, chordSymbol) ==
  IF line.type # "measures" THEN line
  ELSE LET measureIndex == FindMeasure(line.measures, measureId)
       IN IF measureIndex = 0 THEN line
          ELSE [line EXCEPT !.measures[measureIndex].beats =
                  UpdateBeats(@, beatPosition, chordSymbol)]

\* rows.map of handleBeatRightClick and handleChordSelect
UpdateRows(rows, rowId, side, measureId, beatPosition, chordSymbol) ==
  [k \in 1..Len(rows) |->
     IF rows[k].id # rowId THEN rows[k]
     ELSE IF side = "left" \/ rows[k].layout = "full"
          THEN [rows[k] EXCEPT !.leftLine =
                  updateMeasureBeat(@, measureId, beatPosition, chordSymbol)]
          ELSE [rows[k] EXCEPT !.rightLine =
                  updateMeasureBeat(@, measureId, beatPosition, chordSymbol)]]

\* Measure: measureAnalysis
ChordCount(measure) == Cardinality({p \in 1..4 : measure.beats[p].chord # <<>>})
FirstChord(measure) ==
  IF ChordCount(measure) = 0 THEN <<>>
  ELSE measure.beats[CHOOSE p \in 1..4 : /\ measure.beats[p].chord # <<>>
                                          /\ \A q \in 1..(p - 1) : measure.beats[q].chord = <<>>].chord
FirstChordBeat(measure) ==
  IF ChordCount(measure) = 0 THEN 1
  ELSE CHOOSE p \in 1..4 : /\ measure.beats[p].chord # <<>>
                           /\ \A q \in 1..(p - 1) : measure.beats[q].chord = <<>>

IsCompactByCount(measure, forceExpanded) == ChordCount(measure) <= 1

IsCompact(measure, forceExpanded) == ~forceExpanded /\ ChordCount(measure) <= 1

\* MeasureLineComponent: forceExpanded={expandedMeasureIds.has(measure.id)}
ForceExpanded(measure) == measure.id \in expandedMeasureIds

\* the beat cells a measure shows: the compact view has one cell, on the
\* beat of the first chord; the expanded view has a cell for every beat
BeatCells(measure) ==
  IF IsCompact(measure, ForceExpanded(measure)) THEN {FirstChordBeat(measure)}
  ELSE {measure.beats[p].position : p \in 1..4}

\* renderRow: a full-width row shows its left line only
Sides(row) == IF row.layout = "full" THEN {"left"} ELSE {"left", "right"}
LineOf(row, side) == IF side = "left" THEN row.leftLine ELSE row.rightLine

\* the measure at place m of the line shown on a side of row r
MeasureShown(r, side, m) ==
  /\ r \in 1..Len(document.rows)
  /\ side \in Sides(document.rows[r])
  /\ LineOf(document.rows[r], side).type = "measures"
  /\ m \in 1..Len(LineOf(document.rows[r], side).measures)

MeasureAt(r, side, m) == LineOf(document.rows[r], side).measures[m]

\* the chord picker covers the page while it is open
BarIdle == ~showChordDropdown

\* what a handler of the bar chart leaves alone outside the bar chart
BarOnly ==
  UNCHANGED <<docVars, histVars, fileVars, uiVars, dragVars, pureVars, indicatorVars, importVars, dialogVars,
              nextChordId, anchor>>

\* onDocumentChange: the parent stores the document it is handed
OnDocumentChange(doc) ==
  /\ edits < MaxEdits
  /\ edits' = edits + 1
  /\ document' = doc

\* handleBeatClick: a click on a beat cell opens the chord picker
HandleBeatClick(r, side, m, beatPosition) ==
  /\ BarIdle
  /\ MeasureShown(r, side, m)
  /\ beatPosition \in BeatCells(MeasureAt(r, side, m))
  /\ selectedMeasureId' = <<MeasureAt(r, side, m).id>>
  /\ selectedBeat' = <<beatPosition>>
  /\ selectedRowId' = <<document.rows[r].id>>
  /\ selectedSide' = <<side>>
  /\ showChordDropdown' = TRUE
  /\ UNCHANGED <<document, expandedMeasureIds, nextBarId, edits>>
  /\ BarOnly
  /\ lastOp' = Op("beatClick", side, r, m)
  /\ beforeEnter' = <<>>
  /\ beforeUndo' = <<>>
  /\ dropped' = <<>>
  /\ pointer' = <<>>

\* handleBeatRightClick: the compact view passes the right-click on when
\* the measure has a chord, a beat cell when the beat has one
HandleBeatRightClick(r, side, m, beatPosition) ==
  /\ BarIdle
  /\ MeasureShown(r, side, m)
  /\ beatPosition \in BeatCells(MeasureAt(r, side, m))
  /\ MeasureAt(r, side, m).beats[beatPosition].chord # <<>>
  /\ OnDocumentChange([document EXCEPT !.rows =
       UpdateRows(@, document.rows[r].id, side, MeasureAt(r, side, m).id, beatPosition, <<>>)])
  /\ expandedMeasureIds' = expandedMeasureIds \ {MeasureAt(r, side, m).id}
  /\ UNCHANGED <<selectedMeasureId, selectedBeat, selectedRowId, selectedSide,
                 showChordDropdown, nextBarId>>
  /\ BarOnly
  /\ lastOp' = Op(IF IsCompact(MeasureAt(r, side, m), ForceExpanded(MeasureAt(r, side, m)))
                  THEN "removeCompact" ELSE "removeExpanded", side, r, m)
  /\ beforeEnter' = <<>>
  /\ beforeUndo' = <<>>
  /\ dropped' = <<>>
  /\ pointer' = <<>>

\* handleExpandMeasure: the expand button of a compact view with a chord
HandleExpandMeasure(r, side, m) ==
  /\ BarIdle
  /\ MeasureShown(r, side, m)
  /\ IsCompact(MeasureAt(r, side, m), ForceExpanded(MeasureAt(r, side, m)))
  /\ FirstChord(MeasureAt(r, side, m)) # <<>>
  /\ expandedMeasureIds' = expandedMeasureIds \union {MeasureAt(r, side, m).id}
  /\ UNCHANGED <<document, selectedMeasureId, selectedBeat, selectedRowId, selectedSide,
                 showChordDropdown, nextBarId, edits>>
  /\ BarOnly
  /\ lastOp' = Op("expand", side, r, m)
  /\ beforeEnter' = <<>>
  /\ beforeUndo' = <<>>
  /\ dropped' = <<>>
  /\ pointer' = <<>>

\* handleCloseDropdown of the bar chart
CloseBarDropdown ==
  /\ showChordDropdown' = FALSE
  /\ selectedMeasureId' = <<>>
  /\ selectedBeat' = <<>>
  /\ selectedRowId' = <<>>
  /\ selectedSide' = <<>>

HandleCloseBarDropdown ==
  /\ showChordDropdown
  /\ CloseBarDropdown
  /\ UNCHANGED <<document, expandedMeasureIds, nextBarId, edits>>
  /\ BarOnly
  /\ lastOp' = Op("closeDropdown", "left", 0, 0)
  /\ beforeEnter' = <<>>
  /\ beforeUndo' = <<>>
  /\ dropped' = <<>>
  /\ pointer' = <<>>

\* handleChordSelect: returns at once without a selection
HandleChordSelect(symbol) ==
  /\ showChordDropdown
  /\ IF selectedMeasureId = <<>> \/ selectedBeat = <<>> \/ selectedRowId = <<>> \/ selectedSide = <<>>
     THEN UNCHANGED <<barVars, edits>>
     ELSE /\ OnDocumentChange([document EXCEPT !.rows =
               UpdateRows(@, selectedRowId[1], selectedSide[1], selectedMeasureId[1],
                          selectedBeat[1], <<symbol>>)])
          /\ CloseBarDropdown
          /\ UNCHANGED <<expandedMeasureIds, nextBarId>>
  /\ BarOnly
  /\ lastOp' = Op("chordSelect", "left", 0, 0)
  /\ beforeEnter' = <<>>
  /\ beforeUndo' = <<>>
  /\ dropped' = <<>>
  /\ pointer' = <<>>

\* handleMeasuresPerLineChange: updateLine of a line, the new measures
\* taking the ids after base
UpdateLine(line, newValue, base) ==
  IF line.type # "measures" THEN line
  ELSE IF Len(line.measures) = newValue THEN line
  ELSE IF Len(line.measures) < newValue
       THEN [line EXCEPT !.measures =
               [k \in 1..newValue |->
                  IF k <= Len(line.measures) THEN line.measures[k]
                  ELSE createEmptyMeasure(base + k - Len(line.measures))]]
       ELSE [line EXCEPT !.measures = SliceTo(line.measures, newValue)]

\* the number of measures updateLine creates in a line
Created(line, newValue) ==
  IF line.type = "measures" /\ Len(line.measures) < newValue
  THEN newValue - Len(line.measures) ELSE 0

RECURSIVE CreatedBefore(_, _, _)
CreatedBefore(rows, k, newValue) ==
  IF k <= 1 THEN 0
  ELSE CreatedBefore(rows, k - 1, newValue)
       + Created(rows[k - 1].leftLine, newValue) + Created(rows[k - 1].rightLine, newValue)

MeasuresPerLineRows(rows, newValue, n) ==
  [k \in 1..Len(rows) |->
     [rows[k] EXCEPT
        !.leftLine = UpdateLine(@, newValue, n + CreatedBefore(rows, k, newValue)),
        !.rightLine = UpdateLine(@, newValue, n + CreatedBefore(rows, k, newValue)
                                              + Created(rows[k].leftLine, newValue))]]

\* the buttons hand over measuresPerLine - 1 (disabled at 1) and
\* measuresPerLine + 1 (disabled at 8)
HandleMeasuresPerLineChange(value) ==
  LET newValue == Max(1, Min(8, value))
  IN /\ BarIdle
     /\ \/ value = document.measuresPerLine - 1 /\ ~(document.measuresPerLine <= 1)
        \/ value = document.measuresPerLine + 1 /\ ~(document.measuresPerLine >= 8)
     /\ OnDocumentChange([document EXCEPT
          !.measuresPerLine = newValue,
          !.rows = MeasuresPerLineRows(@, newValue, nextBarId)])
     /\ nextBarId' = nextBarId + CreatedBefore(document.rows, Len(document.rows) + 1, newValue)
     /\ UNCHANGED <<selectedMeasureId, selectedBeat, selectedRowId, selectedSide,
                    showChordDropdown, expandedMeasureIds>>
     /\ BarOnly
     /\ lastOp' = Op("measuresPerLine", "left", 0, newValue)
     /\ beforeEnter' = <<>>
     /\ beforeUndo' = <<>>
     /\ dropped' = <<>>
     /\ pointer' = <<>>

\* handleToggleRowLayout: only the layout of the row changes
HandleToggleRowLayout(r) ==
  /\ BarIdle
  /\ r \in 1..Len(document.rows)
  /\ OnDocumentChange([document EXCEPT !.rows[r].layout = IF @ = "full" THEN "split" ELSE "full"])
  /\ UNCHANGED <<selectedMeasureId, selectedBeat, selectedRowId, selectedSide,
                 showChordDropdown, expandedMeasureIds, nextBarId>>
  /\ BarOnly
  /\ lastOp' = Op("toggleLayout", "left", r, 0)
  /\ beforeEnter' = <<>>
  /\ beforeUndo' = <<>>
  /\ dropped' = <<>>
  /\ pointer' = <<>>

HandleDeleteRowForgetting(r) ==
  /\ BarIdle
  /\ r \in 1..Len(document.rows)
  /\ OnDocumentChange([document EXCEPT !.rows = Splice(@, r - 1, 1, <<>>)])
  /\ expandedMeasureIds' = {}
  /\ UNCHANGED <<selectedMeasureId, selectedBeat, selectedRowId, selectedSide,
                 showChordDropdown, nextBarId>>
  /\ BarOnly
  /\ lastOp' = Op("deleteRow", "left", r, 0)
  /\ beforeEnter' = <<>>
  /\ beforeUndo' = <<>>
  /\ dropped' = <<>>
  /\ pointer' = <<>>

\* handleDeleteRow
HandleDeleteRow(r) ==
  /\ BarIdle
  /\ r \in 1..Len(document.rows)
  /\ OnDocumentChange([document EXCEPT !.rows = Splice(@, r - 1, 1, <<>>)])
  /\ UNCHANGED <<selectedMeasureId, selectedBeat, selectedRowId, selectedSide,
                 showChordDropdown, expandedMeasureIds, nextBarId>>
  /\ BarOnly
  /\ lastOp' = Op("deleteRow", "left", r, 0)
  /\ beforeEnter' = <<>>
  /\ beforeUndo' = <<>>
  /\ dropped' = <<>>
  /\ pointer' = <<>>

\* the line handleAddRow and handleAddContent create, and the ids it takes
NewLine(contentType, n) ==
  IF contentType = "section" THEN createSectionLine(n + 1, "[New Section]")
  ELSE createMeasureLine(n + 1, document.measuresPerLine)
NewLineIds(contentType) == IF contentType = "section" THEN 1 ELSE 1 + document.measuresPerLine

\* handleAddRow: position is 0 for 'start', the place of the row to insert
\* after otherwise ('end' is the place of the last row)
HandleAddRow(layout, contentType, position) ==
  LET newLine == NewLine(contentType, nextBarId)
      rowId == nextBarId + NewLineIds(contentType) + 1
      newRow == IF layout = "full" THEN createFullWidthRow(rowId, newLine)
                ELSE createSplitRow(rowId, newLine, NoLine)
  IN /\ BarIdle
     /\ position \in 0..Len(document.rows)
     /\ OnDocumentChange([document EXCEPT !.rows = Splice(@, position, 0, <<newRow>>)])
     /\ nextBarId' = rowId
     /\ UNCHANGED <<selectedMeasureId, selectedBeat, selectedRowId, selectedSide,
                    showChordDropdown, expandedMeasureIds>>
     /\ BarOnly
     /\ lastOp' = Op("addRow", "left", position, 0)
     /\ beforeEnter' = <<>>
     /\ beforeUndo' = <<>>
     /\ dropped' = <<>>
     /\ pointer' = <<>>

\* handleAddContent: the buttons of an empty slot
HandleAddContent(r, side, contentType) ==
  /\ BarIdle
  /\ r \in 1..Len(document.rows)
  /\ side \in Sides(document.rows[r])
  /\ LineOf(document.rows[r], side).type = "none"
  /\ OnDocumentChange(
       IF side = "left"
       THEN [document EXCEPT !.rows[r].leftLine = NewLine(contentType, nextBarId)]
       ELSE [document EXCEPT !.rows[r].rightLine = NewLine(contentType, nextBarId)])
  /\ nextBarId' = nextBarId + NewLineIds(contentType)
  /\ UNCHANGED <<selectedMeasureId, selectedBeat, selectedRowId, selectedSide,
                 showChordDropdown, expandedMeasureIds>>
  /\ BarOnly
  /\ lastOp' = Op("addContent", side, r, 0)
  /\ beforeEnter' = <<>>
  /\ beforeUndo' = <<>>
  /\ dropped' = <<>>
  /\ pointer' = <<>>

\* handleDeleteContent: the delete button of a line in a split row
HandleDeleteContent(r, side) ==
  /\ BarIdle
  /\ r \in 1..Len(document.rows)
  /\ document.rows[r].layout = "split"
  /\ LineOf(document.rows[r], side).type # "none"
  /\ OnDocumentChange(
       IF side = "left" THEN [document EXCEPT !.rows[r].leftLine = NoLine]
       ELSE [document EXCEPT !.rows[r].rightLine = NoLine])
  /\ UNCHANGED <<selectedMeasureId, selectedBeat, selectedRowId, selectedSide,
                 showChordDropdown, expandedMeasureIds, nextBarId>>
  /\ BarOnly
  /\ lastOp' = Op("deleteContent", side, r, 0)
  /\ beforeEnter' = <<>>
  /\ beforeUndo' = <<>>
  /\ dropped' = <<>>
  /\ pointer' = <<>>

\* ------------------------------------------------------------- inputs
\* line contents typed into a line input
LineVals == {<<>>, <<"a", "b">>}

\* clipboard texts with line breaks: "x\r\ny" (two lines), "\n\r" (three)
PasteTexts == {<<"x", CR, NL, "y">>, <<NL, CR>>}

\* character indexes a click on the chord row gives
RowClicks == {1}

\* selections of the line input at a paste: the cursor at 1, and 2..4 selected
Selections == {<<1, 1>>, <<2, 4>>}

\* cursor offsets at an Enter
Cursors == {0, 2}

\* --------------------------------------------- one column: its line edits
LineDocs == {HelloWorld, Verses}

NextLines ==
  \/ \E doc \in LineDocs : HandleLoadDocument(doc)
  \/ \E i \in 0..(LineCount("left") - 1), v \in LineVals : HandleLineChange("left", i, v)
  \/ \E i \in 0..(LineCount("left") - 1), k \in Cursors : HandleEnter("left", i, k)
  \/ \E i \in 0..(LineCount("left") - 1) : HandleBackspace("left", i)
  \/ \E i \in 0..(LineCount("left") - 1), p \in PasteTexts, sel \in Selections :
        HandleLinePaste("left", i, p, sel[1], sel[2])

SpecLines == Init /\ [][NextLines]_vars

\* ----------------------------------------------- one column: chord drag
DragDocs == {HelloWorld, Verses}

\* where the pointer goes down, and where it is moved to
StartXs == {Px(100)}
MoveXs == {Px(0), Px(104), Px(600)}

NextDrag ==
  \/ \E doc \in DragDocs : HandleLoadDocument(doc)
  \/ \E k \in 1..Len(chords["left"]), x \in StartXs : HandleChordDragStart("left", k, x)
  \/ \E k \in 1..Len(chords["left"]), x \in StartXs : HandleChordTouchStart("left", k, x)
  \/ \E x \in MoveXs : HandleMouseMove("left", x)
  \/ \E x \in MoveXs : HandleTouchMove("left", x)
  \/ HandleMouseUp
  \/ HandleTouchEnd
  \/ HandleEscapeKey("left")

SpecDrag == Init /\ [][NextDrag]_vars

\* --------------------------------------------------------- the bar chart
BarSymbols == {"G", "Am"}
BarSides == {"left", "right"}
BarLayouts == {"full", "split"}
BarContents == {"section", "measures"}

\* the places in a line where the pointer goes; a row is added at the top
\* or under the last row
BarMeasures == 1..2

NextBar ==
  \/ \E r \in 1..Len(document.rows), side \in BarSides, m \in BarMeasures, b \in 1..4 :
        HandleBeatClick(r, side, m, b)
  \/ \E r \in 1..Len(document.rows), side \in BarSides, m \in BarMeasures, b \in 1..4 :
        HandleBeatRightClick(r, side, m, b)
  \/ \E r \in 1..Len(document.rows), side \in BarSides, m \in BarMeasures :
        HandleExpandMeasure(r, side, m)
  \/ HandleCloseBarDropdown
  \/ \E symbol \in BarSymbols : HandleChordSelect(symbol)
  \/ \E value \in 0..9 : HandleMeasuresPerLineChange(value)
  \/ \E r \in 1..Len(document.rows) : HandleToggleRowLayout(r)
  \/ \E r \in 1..Len(document.rows) : HandleDeleteRow(r)
  \/ \E layout \in BarLayouts, contentType \in BarContents, position \in {0, Len(document.rows)} :
        HandleAddRow(layout, contentType, position)
  \/ \E r \in 1..Len(document.rows), side \in BarSides, contentType \in BarContents :
        HandleAddContent(r, side, contentType)
  \/ \E r \in 1..Len(document.rows), side \in BarSides : HandleDeleteContent(r, side)

SpecBar == Init /\ [][NextBar]_vars

\* ------------------------------------------- one column: its sections
SectionDocs == {Sectioned}

\* what is typed into a line to make or unmake a header
HeaderVals == {<<>>, <<"[", "A", "]">>}

NextSections ==
  \/ \E doc \in SectionDocs : HandleLoadDocument(doc)
  \/ \E i \in 0..(LineCount("left") - 1), v \in HeaderVals : HandleLineChange("left", i, v)
  \/ \E i \in 0..(LineCount("left") - 1) : HandleSectionContextMenu("left", i)
  \/ CloseContextMenu("left")
  \/ HandleCopySection("left")
  \/ HandlePasteSection("left")
  \/ HandleDeleteSection("left")

SpecSections == Init /\ [][NextSections]_vars

\* ------------------------------- one column: the chords of its lines
NextLineChords ==
  \/ \E doc \in LineDocs : HandleLoadDocument(doc)
  \/ \E i \in 0..(LineCount("left") - 1), v \in LineVals : HandleLineChange("left", i, v)
  \/ \E i \in 0..(LineCount("left") - 1), k \in Cursors : HandleEnter("left", i, k)
  \/ \E i \in 0..(LineCount("left") - 1) : HandleCopyChords("left", i)
  \/ \E i \in 0..(LineCount("left") - 1) : HandlePasteKey("left", i)

SpecLineChords == Init /\ [][NextLineChords]_vars

\* ------------------------------------ one column: its section ranges
\* what is typed into a line: "[]", " [A] ", "[A]]", "x"
RangeVals ==
  {<<"[", "]">>, <<" ", "[", "A", "]", " ">>, <<"[", "A", "]", "]">>, <<"x">>}

NextRanges ==
  \/ \E doc \in SectionDocs : HandleLoadDocument(doc)
  \/ \E i \in 0..(LineCount("left") - 1), v \in RangeVals : HandleLineChange("left", i, v)
  \/ \E i \in 0..(LineCount("left") - 1) : HandleSectionContextMenu("left", i)
  \/ HandleCopySection("left")
  \/ HandleDeleteSection("left")

SpecRanges == Init /\ [][NextRanges]_vars

\* ------------------------------- edits, snapshots, auto-save and undo
HistoryDocs == {ThreeColumns}

NextHistory ==
  \/ \E doc \in HistoryDocs : HandleLoadDocument(doc)
  \/ \E i \in 0..(LineCount("left") - 1), k \in Cursors : HandleEnter("left", i, k)
  \/ \E i \in 0..(LineCount("left") - 1) : HandleBackspace("left", i)
  \/ \E i \in 0..(LineCount("left") - 1) :
        HandleLinePaste("left", i, <<"x", CR, NL, "y">>, 1, 1)
  \/ \E i \in 0..(LineCount("left") - 1) : HandleSectionContextMenu("left", i)
  \/ HandleCopySection("left")
  \/ HandlePasteSection("left")
  \/ HandleDeleteSection("left")
  \/ ToggleColumnCount
  \/ HistoryTimeoutFires
  \/ HandleUndo
  \/ CheckAutoSave

SpecHistory == Init /\ [][NextHistory]_vars

\* ------------------------- the page: chord placement, columns and undo
AppDocs == {MiddleOnly}

\* the column that is edited
AppColumns == {"right"}

NextApp ==
  \/ \E doc \in AppDocs : HandleLoadDocument(doc)
  \/ \E c \in AppColumns : ToggleChordMode(c)
  \/ \E c \in AppColumns : \E i \in 0..(LineCount(c) - 1) : HandleCharClick(c, i, 0)
  \/ \E c \in AppColumns : \E i \in 0..(LineCount(c) - 1), k \in RowClicks :
        HandleChordRowClick(c, i, k)
  \/ \E c \in AppColumns, symbol \in Symbols : HandleSelectChord(c, symbol)
  \/ \E c \in AppColumns : HandleCloseDropdown(c)
  \/ \E c \in AppColumns : HandleAddLine(c)
  \/ \E c \in AppColumns : HandleAddChordOnlyLine(c)
  \/ ToggleColumnCount
  \/ ToggleDirection
  \/ HistoryTimeoutFires
  \/ HandleUndo
  \/ HandleRedo

SpecApp == Init /\ [][NextApp]_vars

\* --------------------------------------------- line edits: properties
\* the chord with a given id in the left column
HasChord(id, lineIndex) ==
  \E k \in 1..Len(chords["left"]) :
     chords["left"][k].id = id /\ chords["left"][k].lineIndex = lineIndex

\* cs with the lineIndex of every chord after line i moved by d
ShiftedAfter(cs, i, d) ==
  [k \in 1..Len(cs) |-> IF cs[k].lineIndex > i
                        THEN [cs[k] EXCEPT !.lineIndex = cs[k].lineIndex + d] ELSE cs[k]]

\* C1: through any sequence of Enter, Backspace and multi-line paste in a
\* column, every chord that is present sits on the current index of the
\* line it was placed on (lines tracked by markers that move with them), and
\* no chord is present whose line was deleted.
C1_ReconciliationInvariant ==
  \A k \in 1..Len(chords["left"]) :
     /\ chords["left"][k].id \in DOMAIN anchor["left"]
     /\ chords["left"][k].lineIndex = anchor["left"][chords["left"][k].id]

\* C1 happens: after a load of "ab\n\nc", Enter on line 0 and a paste of
\* three lines into line 0 moved the chord placed on line 2 to line 5.
C1_Witness ==
  /\ lastOp = Op("paste", "left", 0, 2)
  /\ HasChord(104, 5)
  /\ anchor["left"][104] = 5
  /\ HasChord(102, 0)

\* the line breaks of a pasted text: every "\n" and "\r", a "\n" right
\* after a "\r" counting with it
Breaks(p) == {k \in 1..Len(p) : p[k] \in {NL, CR} /\ ~(p[k] = NL /\ k > 1 /\ p[k - 1] = CR)}

\* the text before the first line break and the text after the last one
FirstPasted(p) ==
  SubSeq(p, 1, (CHOOSE k \in Breaks(p) : \A j \in Breaks(p) : k <= j) - 1)
LastPasted(p) ==
  LET k == CHOOSE m \in 1..Len(p) : p[m] \in {NL, CR} /\ \A j \in (m + 1)..Len(p) : p[j] \notin {NL, CR}
  IN SubSeq(p, k + 1, Len(p))

\* C2: in every state a column reaches, every chord of the column is on
\* one of the column's lines: 0 <= lineIndex < number of lines.
C2_ChordsOnLines ==
  \A c \in Columns : \A k \in 1..Len(chords[c]) :
     chords[c][k].lineIndex >= 0 /\ chords[c][k].lineIndex < LineCount(c)

\* C4: a paste of text that splits into n >= 2 lines into line i, the
\* selection being a..b, adds n - 1 lines, makes line i "text before a +
\* first pasted line" and line i+n-1 "last pasted line + text after b",
\* moves every chord after line i down by n - 1 and leaves the chords on
\* lines up to i as they are.
C4_MultilinePaste ==
  [][\A i \in 0..(LineCount("left") - 1), p \in PasteTexts, sel \in Selections :
       HandleLinePaste("left", i, p, sel[1], sel[2]) =>
         LET n == Cardinality(Breaks(p)) + 1
             old == Lines("left")
             new == SplitNL(text'["left"])
         IN /\ n >= 2
            /\ Len(new) = Len(old) + n - 1
            /\ new[i + 1] = SubSeq(old[i + 1], 1, sel[1]) \o FirstPasted(p)
            /\ new[i + n] = LastPasted(p) \o SubSeq(old[i + 1], sel[2] + 1, Len(old[i + 1]))
            /\ \A j \in 1..i : new[j] = old[j]
            /\ \A j \in (i + 2)..Len(old) : new[j + n - 1] = old[j]
            /\ chords'["left"] = ShiftedAfter(chords["left"], i, n - 1)]_vars

\* C4 happens: "\n\r" (three lines) was pasted into line 0 of "ab\n\nc" at
\* offset 1; the chord of line 0 stayed and the chord of line 2 is on line 4.
C4_Witness ==
  /\ lastOp = Op("paste", "left", 0, 2)
  /\ Lines("left") = <<<<"a">>, <<>>, <<"b">>, <<>>, <<"c">>>>
  /\ HasChord(102, 0)
  /\ HasChord(104, 4)

\* C5: Backspace removes a line only from an empty line i > 0; it removes
\* exactly line i, deletes the chords of line i, moves the chords after
\* line i up by one and leaves the chords before line i as they are.
C5_BackspaceEmptyLine ==
  [][\A i \in 0..(LineCount("left") - 1) :
     HandleBackspace("left", i) =>
       LET old == Lines("left")
           new == SplitNL(text'["left"])
           kept == SelectSeq(chords["left"], LAMBDA c : c.lineIndex # i)
       IN /\ i > 0
          /\ old[i + 1] = <<>>
          /\ Len(new) = Len(old) - 1
          /\ \A j \in 1..i : new[j] = old[j]
          /\ \A j \in (i + 2)..Len(old) : new[j - 1] = old[j]
          /\ chords'["left"] = ShiftedAfter(kept, i, -1)]_vars

\* C5 happens: Backspace on the empty line 1 of "ab\n\nc" deleted the chord
\* of line 1, kept the chord of line 0 and moved the chord of line 2 to line 1.
C5_Witness ==
  /\ lastOp = Op("backspace", "left", 1, 1)
  /\ Lines("left") = <<<<"a", "b">>, <<"c">>>>
  /\ HasChord(102, 0)
  /\ HasChord(104, 1)
  /\ ~\E l \in 0..5 : HasChord(103, l)

\* "Hello" and "world"
Hello == <<"H", "e", "l", "l", "o">>
World == <<"w", "o", "r", "l", "d">>

\* C6 as claimed: Enter with the cursor at offset k of line i replaces
\* line i by text[0..k) and text[k..] and moves the chords after line i down
\* by one.
C6_EnterSplitsAtCursor ==
  [][\A i \in 0..(LineCount("left") - 1), k \in Cursors :
       HandleEnter("left", i, k) =>
         LET old == Lines("left")
             new == SplitNL(text'["left"])
         IN /\ Len(new) = Len(old) + 1
            /\ new[i + 1] = SubSeq(old[i + 1], 1, k)
            /\ new[i + 2] = SubSeq(old[i + 1], k + 1, Len(old[i + 1]))
            /\ chords'["left"] = ShiftedAfter(chords["left"], i, 1)]_vars

\* C6, amended: Enter on line i, wherever the cursor is, leaves line i as it
\* is, inserts an empty line after it and moves exactly the chords after
\* line i down by one; Enter on line 0 of ["Hello", "world"] yields
\* ["Hello", "", "world"] and moves the chord on "world" from line 1 to 2.
C6_EnterInsertsEmptyLine ==
  [][\A i \in 0..(LineCount("left") - 1), k \in Cursors :
       HandleEnter("left", i, k) =>
         LET old == Lines("left")
             new == SplitNL(text'["left"])
         IN /\ Len(new) = Len(old) + 1
            /\ \A j \in 1..(i + 1) : new[j] = old[j]
            /\ new[i + 2] = <<>>
            /\ \A j \in (i + 2)..Len(old) : new[j + 1] = old[j]
            /\ chords'["left"] = ShiftedAfter(chords["left"], i, 1)
            /\ (i = 0 /\ old = <<Hello, World>> /\ chords["left"] = <<Chord(101, "G", 1, 0, 0)>>)
                 => /\ new = <<Hello, <<>>, World>>
                    /\ chords'["left"] = <<Chord(101, "G", 2, 0, 0)>>]_vars

\* C6 happens: Enter was pressed in line 0 of ["Hello", "world"].
C6_Witness ==
  /\ lastOp = Op("enter", "left", 0, 1)
  /\ Lines("left") = <<Hello, <<>>, World>>
  /\ HasChord(101, 2)

\* C7: Enter on line i and then Backspace in the new line i+1 give back the
\* text of the column and its chords as they were before the Enter.
C7_EnterBackspaceRestores ==
  (lastOp.kind = "backspace" /\ beforeEnter # <<>>) =>
     /\ text[lastOp.col] = beforeEnter[1].text
     /\ chords[lastOp.col] = beforeEnter[1].chords

\* C7 happens: Enter on line 0 of "ab\n\nc" and Backspace on the new line 1,
\* with the chords of lines 1 and 2 moved down and back up.
C7_Witness ==
  /\ lastOp = Op("backspace", "left", 1, 1)
  /\ beforeEnter # <<>>
  /\ Lines("left") = <<<<"a", "b">>, <<>>, <<"c">>>>
  /\ HasChord(103, 1)
  /\ HasChord(104, 2)

\* ----------------------------------------------- sections: properties
\* the last line of the section whose header is line S: the line before the
\* next header, or the last line
SectionEnd(ls, S) ==
  CHOOSE E \in S..(Len(ls) - 1) :
     /\ \A j \in (S + 1)..E : ~isSectionLine(ls[j + 1])
     /\ E = Len(ls) - 1 \/ isSectionLine(ls[E + 2])

\* C8: deleting the section with header at line S and range [S, E] removes
\* lines S..E (a column left without lines has the empty text), removes the
\* chords of lines S..E, moves the chords after E up by E - S + 1 and leaves
\* the chords before S as they are.
C8_DeleteSection ==
  [][\A S \in 0..(LineCount("left") - 1) :
       (HandleDeleteSection("left") /\ contextMenuChordId["left"] = <<S>>
          /\ isSectionLine(Lines("left")[S + 1])) =>
         LET old == Lines("left")
             E == SectionEnd(old, S)
             rest == SubSeq(old, 1, S) \o SubSeq(old, E + 2, Len(old))
             kept == SelectSeq(chords["left"], LAMBDA c : c.lineIndex < S \/ c.lineIndex > E)
         IN /\ text'["left"] = JoinNL(rest)
            /\ rest # <<>> => SplitNL(text'["left"]) = rest
            /\ chords'["left"] = ShiftedAfter(kept, E, -(E - S + 1))]_vars

\* C8 happens: section [A] (lines 0..1) of "[A]\na\n[B]" was deleted; its
\* chord is gone and the chord of [B] moved from line 2 to line 0.
C8_Witness ==
  /\ lastOp = Op("deleteSection", "left", 0, 2)
  /\ Lines("left") = <<<<"[", "B", "]">>>>
  /\ chords["left"] = <<Chord(106, "F", 0, 1, 0)>>

\* C9: pasting the copied section of L lines onto line T inserts the L lines
\* at T+1..T+L and leaves line T and every other line as it was, moves the
\* chords after T down by L and leaves the chords up to T alone, and appends
\* one chord per copied chord, on line relative + T + 1, with an id that is
\* neither an existing chord's id nor the copied chord's id.
C9_PasteSection ==
  [][\A T \in 0..(LineCount("left") - 1) :
       (HandlePasteSection("left") /\ contextMenuChordId["left"] = <<T>>) =>
         LET old == Lines("left")
             section == copiedSection[1]
             L == Len(section.lines)
             n == Len(chords["left"])
         IN /\ SplitNL(text'["left"]) =
                 SubSeq(old, 1, T + 1) \o section.lines \o SubSeq(old, T + 2, Len(old))
            /\ Len(chords'["left"]) = n + Len(section.chords)
            /\ SubSeq(chords'["left"], 1, n) = ShiftedAfter(chords["left"], T, L)
            /\ \A k \in 1..Len(section.chords) :
                 LET new == chords'["left"][n + k]
                     copied == section.chords[k]
                 IN /\ new.lineIndex = copied.lineIndex + T + 1
                    /\ new.id \notin ChordIds("left") \cup {copied.id}]_vars

\* C9 happens: the content of [A] (one line, one chord) was pasted onto [B],
\* the last line of "[A]\na\n[B]"; the copy of chord 105 sits on line 3.
C9_Witness ==
  /\ lastOp = Op("pasteSection", "left", 2, 1)
  /\ Lines("left") = <<<<"[", "A", "]">>, <<"a">>, <<"[", "B", "]">>, <<"a">>>>
  /\ Len(chords["left"]) = 3
  /\ chords["left"][3].lineIndex = 3
  /\ chords["left"][3].id \notin {105, 106}
  /\ HasChord(105, 1)
  /\ HasChord(106, 2)

\* C10: the section with header S and content S+1..E is copied and at once
\* pasted onto its own header: its content then has 2 * (E - S) lines, the
\* copy followed by the original, and the k-th chord of the copy has the
\* relative line, the charIndex and the offsetX of the k-th chord of the
\* original content.
C10_CopyPasteDoubles ==
  [][\A S \in 0..(LineCount("left") - 1) :
       (HandlePasteSection("left") /\ contextMenuChordId["left"] = <<S>>
          /\ lastOp = Op("copySection", "left", S, 0)) =>
         LET old == Lines("left")
             new == SplitNL(text'["left"])
             E == SectionEnd(old, S)
             content == SubSeq(old, S + 2, E + 1)
             original == SelectSeq(chords["left"],
                                   LAMBDA c : c.lineIndex > S /\ c.lineIndex <= E)
             n == Len(chords["left"])
         IN /\ SectionEnd(new, S) - S = 2 * (E - S)
            /\ SubSeq(new, S + 2, S + 1 + 2 * (E - S)) = content \o content
            /\ Len(chords'["left"]) = n + Len(original)
            /\ \A k \in 1..Len(original) :
                 LET copy == chords'["left"][n + k]
                 IN /\ copy.lineIndex - (S + 1) = original[k].lineIndex - (S + 1)
                    /\ copy.charIndex = original[k].charIndex
                    /\ copy.offsetX = original[k].offsetX]_vars

\* C10 happens: [A] of "[A]\na\n[B]" was copied and pasted onto itself; the
\* copy of chord 105 is on line 1 and chord 105 itself moved to line 2.
C10_Witness ==
  /\ lastOp = Op("pasteSection", "left", 0, 1)
  /\ Lines("left") = <<<<"[", "A", "]">>, <<"a">>, <<"a">>, <<"[", "B", "]">>>>
  /\ copiedSection = <<[lines |-> <<<<"a">>>>, chords |-> <<Chord(105, "Em", 0, 0, 7)>>]>>
  /\ Len(chords["left"]) = 3
  /\ chords["left"][3] = Chord(1, "Em", 1, 0, 7)
  /\ HasChord(105, 2)
  /\ HasChord(106, 3)

\* --------------------------------------- pairing of text and chords
\* the chords column c must hold after the handler that lastOp' records,
\* which changed the number of lines of c
Reconciled(c) ==
  LET cs == chords[c]
      i == lastOp'.lineIndex
      n == lastOp'.n
  IN CASE lastOp'.kind = "enter" -> ShiftedAfter(cs, i, 1)
       [] lastOp'.kind = "backspace" ->
            ShiftedAfter(SelectSeq(cs, LAMBDA x : x.lineIndex # i), i, -1)
       [] lastOp'.kind = "paste" -> ShiftedAfter(cs, i, n)
       [] lastOp'.kind = "pasteSection" ->
            ShiftedAfter(cs, i, n) \o SubSeq(chords'[c], Len(cs) + 1, Len(chords'[c]))
       [] lastOp'.kind = "deleteSection" ->
            ShiftedAfter(SelectSeq(cs, LAMBDA x : x.lineIndex < i \/ x.lineIndex > i + n - 1),
                         i + n - 1, -n)
       [] lastOp'.kind = "toggleColumns" ->
            chords["middle"] \o ShiftedAfter(cs, -1, Len(SplitNL(text["middle"])))

LineCountChanges ==
  {"enter", "backspace", "paste", "pasteSection", "deleteSection", "toggleColumns"}

\* C3: a change of a column's line count (Enter, Backspace, multi-line
\* paste, section paste, section delete, the merge of three columns into
\* two) and the move of the chords are applied as one step, and what a
\* history snapshot, a pending history timer and the auto-save hold is
\* always the text and the chords of one such state, never the lines of
\* one state with the chords of another.
C3_AtomicPairing ==
  [][/\ \A c \in Columns :
          (/\ lastOp'.kind \in LineCountChanges
           /\ lastOp'.col = c
           /\ lastOp'.kind = "toggleColumns" => columnCount = 3
           /\ Len(SplitNL(text'[c])) # LineCount(c)) => chords'[c] = Reconciled(c)
     /\ \/ historyTimeout' = historyTimeout
        \/ historyTimeout' = <<>>
        \/ /\ historyTimeout'[1].state.text = text'
           /\ historyTimeout'[1].state.chords = chords'
     /\ \A k \in 1..Len(history') :
          \/ history'[k] \in Range(history)
          \/ historyTimeout # <<>> /\ history'[k] = historyTimeout[1].state
     /\ \/ autoSaved' = autoSaved
        \/ autoSaved' = <<>>
        \/ /\ autoSaved'[1].text = text /\ autoSaved'[1].chords = chords
           /\ text' = text /\ chords' = chords]_vars

\* C3 happens: the history holds the snapshot taken after Enter on line 0
\* of "[S]\np" moved the chord from line 1 to line 2, the auto-save holds
\* the same columns, and a second Enter has moved the chord to line 3.
C3_Witness ==
  /\ \E k \in 1..Len(history) :
        /\ SplitNL(history[k].text["left"]) = <<<<"[", "S", "]">>, <<>>, <<"p">>>>
        /\ history[k].chords["left"] = <<Chord(107, "B", 2, 0, 0)>>
        /\ autoSaved # <<>>
        /\ autoSaved[1].text = history[k].text
        /\ autoSaved[1].chords = history[k].chords
  /\ LineCount("left") = 4
  /\ HasChord(107, 3)

\* ------------------------------------------- section ranges: properties
\* lines that are headers and lines that are not
HeaderLines ==
  {<<"[", "A", "]">>, <<"[", "B", "]">>, <<" ", "[", "A", "]", " ">>, <<"[", "[", "A", "]">>}
PlainLines ==
  {<<>>, <<"a">>, <<"x">>, <<"[", "]">>, <<"[", "A", "]", "]">>, <<"[", "A", "]", "x">>,
   <<"x", "[", "A", "]">>, <<"[", "A">>, <<"A", "]">>, <<" ">>}

\* C11: getSectionRange(text, h) for a line h of the text starts at h and
\* ends on the line before the first header after h, or on the last line
\* when no header follows: h <= endLine <= last line, no line in
\* (h, endLine] is a header, and endLine is the last line or the line after
\* it is a header; a line is a header exactly when its trimmed content is
\* "[", then one or more characters other than "]", then "]".
C11_SectionRange ==
  /\ \A h \in 0..(LineCount("left") - 1) :
       LET ls == Lines("left")
           r == getSectionRange(text["left"], h)
       IN /\ r.startLine = h
          /\ r.startLine <= r.endLine /\ r.endLine <= Len(ls) - 1
          /\ \A j \in (h + 1)..r.endLine : ls[j + 1] \notin HeaderLines
          /\ r.endLine = Len(ls) - 1 \/ ls[r.endLine + 2] \in HeaderLines
  /\ \A l \in HeaderLines : isSectionLine(l)
  /\ \A l \in PlainLines : ~isSectionLine(l)
  /\ \A i \in 1..LineCount("left") : Lines("left")[i] \in HeaderLines \cup PlainLines

\* C11 happens: line 1 of "[A]\na\n[B]" was changed to " [A] ", a header
\* once trimmed, and the section of line 0 that was then deleted was the
\* range [0, 0], the header alone.
C11_Witness ==
  /\ lastOp = Op("deleteSection", "left", 0, 1)
  /\ Lines("left") = <<<<" ", "[", "A", "]", " ">>, <<"[", "B", "]">>>>

\* ------------------------------------------ a line's chords: properties
\* C12: the chords of line N are copied and then pasted (Ctrl+V) onto line
\* M: afterwards the chords of M are exactly one copy per chord of N, with
\* lineIndex M, an id no chord had, and the copied chord's symbol, charIndex
\* and offsetX, and the chords of the other lines are as they were.
C12_PasteLineChords ==
  [][\A N, M \in 0..(LineCount("left") - 1) :
       (/\ lastOp.kind = "copyChords" /\ lastOp.lineIndex = N /\ lastOp.n > 0
        /\ HandlePasteKey("left", M)) =>
         LET copied == getChordsForLine("left", N)
             others == SelectSeq(chords["left"], LAMBDA c : c.lineIndex # M)
             pasted == SelectSeq(chords'["left"], LAMBDA c : c.lineIndex = M)
         IN /\ SelectSeq(chords'["left"], LAMBDA c : c.lineIndex # M) = others
            /\ Len(pasted) = Len(copied)
            /\ \A k \in 1..Len(copied) :
                 /\ pasted[k].id \notin ChordIds("left")
                 /\ pasted[k].chordSymbol = copied[k].chordSymbol
                 /\ pasted[k].charIndex = copied[k].charIndex
                 /\ pasted[k].offsetX = copied[k].offsetX]_vars

\* the chord being dragged in the left column, and where it is in the array
DraggedAt == FindChord(chords["left"], draggingChordId["left"][1])
DragActive == Dragging("left") /\ DraggedAt # 0

LowestOffset(c) == -(c.charIndex * charWidth) - padding
HighestOffset(c) == columnWidth - c.charIndex * charWidth + padding

\* the offset a move to clientX is to give the dragged chord
Expected(clientX) ==
  LET c == chords["left"][DraggedAt]
      delta == IF direction = "rtl" THEN dragStartX["left"] - clientX
               ELSE clientX - dragStartX["left"]
      raw == dragStartOffset["left"] + delta
  IN IF raw < LowestOffset(c) THEN LowestOffset(c)
     ELSE IF raw > HighestOffset(c) THEN HighestOffset(c)
     ELSE raw

\* C13: while a chord is dragged, every mouse or touch move sets its
\* offsetX to the start offset plus the pointer's travel (negated right to
\* left), kept within [-(charIndex * charWidth) - padding,
\* columnWidth - charIndex * charWidth + padding]; no move puts it below
\* the lower end.
C13_DragClamp ==
  [][\A x \in MoveXs :
       (DragActive /\ (HandleMouseMove("left", x) \/ HandleTouchMove("left", x))) =>
         /\ chords'["left"][DraggedAt].offsetX = Expected(x)
         /\ chords'["left"][DraggedAt].offsetX >= LowestOffset(chords["left"][DraggedAt])]_vars

\* a move has just pulled the dragged chord to the lower end of its range
C13_Witness ==
  /\ lastOp.kind = "dragMove"
  /\ DragActive
  /\ AdjustedOffset(direction, dragStartOffset["left"], dragStartX["left"], lastOp.n)
       < LowestOffset(chords["left"][DraggedAt])
  /\ chords["left"][DraggedAt].offsetX = LowestOffset(chords["left"][DraggedAt])

\* C14: Escape during a drag ends the drag and puts the dragged chord's
\* offsetX back to what it was when the drag started, whatever moves came
\* in between; the chord's other fields and the other chords stay.  The
\* start value is the chord's offsetX at the drag start, and no step of the
\* drag but a drag start changes what was kept of it.
C14_EscapeRestores ==
  [][/\ \A k \in 1..Len(chords["left"]), x \in StartXs :
          (HandleChordDragStart("left", k, x) \/ HandleChordTouchStart("left", k, x)) =>
            /\ dragStartOffset'["left"] = chords["left"][k].offsetX
            /\ draggingChordId'["left"] = <<chords["left"][k].id>>
            /\ chords' = chords
     /\ (Dragging("left") /\ draggingChordId'["left"] = draggingChordId["left"]
           /\ lastOp'.kind # "dragStart") =>
          dragStartOffset'["left"] = dragStartOffset["left"]
     /\ (DragActive /\ HandleEscapeKey("left")) =>
          /\ draggingChordId'["left"] = <<>>
          /\ Len(chords'["left"]) = Len(chords["left"])
          /\ \A k \in 1..Len(chords["left"]) :
               chords'["left"][k] =
                 IF k = DraggedAt
                 THEN [chords["left"][k] EXCEPT !.offsetX = dragStartOffset["left"]]
                 ELSE chords["left"][k]
          /\ UNCHANGED text]_vars

\* Escape has just put a chord that moves had displaced back to its start
C14_Witness ==
  /\ lastOp.kind = "dragCancel"
  /\ draggingChordId["left"] = <<>>
  /\ lastOp.n # dragStartOffset["left"]
  /\ \E k \in 1..Len(chords["left"]) :
       /\ chords["left"][k].lineIndex = lastOp.lineIndex
       /\ chords["left"][k].offsetX = dragStartOffset["left"]

\* C15: a mouse-up or touch-end during a drag ends it and keeps the
\* offsetX the last move computed (the start value when there was no
\* move); while no drag is active, no move and no Escape changes a chord.
C15_ReleaseKeeps ==
  [][/\ (HandleMouseUp \/ HandleTouchEnd) =>
          /\ draggingChordId'["left"] = <<>>
          /\ chords' = chords
          /\ (DragActive /\ lastOp.kind = "dragMove") =>
               chords'["left"][DraggedAt].offsetX = Expected(lastOp.n)
          /\ (DragActive /\ lastOp.kind = "dragStart") =>
               chords'["left"][DraggedAt].offsetX = dragStartOffset["left"]
     /\ \A x \in MoveXs :
          (~Dragging("left") /\ (\/ HandleMouseMove("left", x)
                                 \/ HandleTouchMove("left", x)
                                 \/ HandleEscapeKey("left"))) =>
            chords' = chords]_vars

\* after a drag that moved a chord was released, a move has changed nothing
C15_Witness ==
  /\ lastOp.kind = "dragMove"
  /\ ~Dragging("left")
  /\ \E k \in 1..Len(chords["left"]) :
       /\ selectedChordId["left"] = <<chords["left"][k].id>>
       /\ chords["left"][k].offsetX # dragStartOffset["left"]

\* C16: a drag start on another chord during a drag is not taken: the
\* chord being dragged, the start position of the pointer and the start
\* offset stay as they are.
C16_NoSecondDrag ==
  [][\A k \in 1..Len(chords["left"]), x \in StartXs :
       (/\ Dragging("left")
        /\ chords["left"][k].id # draggingChordId["left"][1]
        /\ (HandleChordDragStart("left", k, x) \/ HandleChordTouchStart("left", k, x))) =>
         UNCHANGED <<draggingChordId, dragStartX, dragStartOffset>>]_vars

\* the measures of the document, shown or not, and the places of those shown
AllMeasures ==
  UNION {Range(document.rows[r].leftLine.measures) \union Range(document.rows[r].rightLine.measures) :
           r \in 1..Len(document.rows)}
Places ==
  {pl \in (1..Len(document.rows)) \X BarSides \X BarMeasures : MeasureShown(pl[1], pl[2], pl[3])}

Bearing(beats) == {p \in 1..4 : beats[p].chord # <<>>}

\* a beat is a hold exactly when it has no chord and a beat before it has one
HoldsInferred(beats) ==
  \A i \in 1..4 :
    beats[i].isHold <=> (beats[i].chord = <<>> /\ \E j \in 1..(i - 1) : beats[j].chord # <<>>)

\* the dropdown is open for beat b of the measure at a place
SelectedAt(pl, b) ==
  /\ showChordDropdown
  /\ selectedRowId = <<document.rows[pl[1]].id>>
  /\ selectedSide = <<pl[2]>>
  /\ selectedMeasureId = <<MeasureAt(pl[1], pl[2], pl[3]).id>>
  /\ selectedBeat = <<b>>

BeatsAfter(pl) == LineOf(document'.rows[pl[1]], pl[2]).measures[pl[3]].beats

\* C17: after a chord is set on a beat or removed from it, every beat of
\* the measure is a hold exactly when it has no chord and an earlier beat
\* has one: chords on beats 1 and 3 only give holds on beats 2 and 4 only,
\* and removing the chord of beat 1, the measure's only one, leaves no hold.
C17_HoldInference ==
  [][\A pl \in Places, b \in 1..4 :
       (\/ HandleBeatRightClick(pl[1], pl[2], pl[3], b)
        \/ (SelectedAt(pl, b) /\ \E symbol \in BarSymbols : HandleChordSelect(symbol))) =>
         /\ HoldsInferred(BeatsAfter(pl))
         /\ Bearing(BeatsAfter(pl)) = {1, 3} =>
              {p \in 1..4 : BeatsAfter(pl)[p].isHold} = {2, 4}
         /\ Bearing(BeatsAfter(pl)) = {} =>
              {p \in 1..4 : BeatsAfter(pl)[p].isHold} = {}]_vars

\* a chord was just set that leaves a measure with chords on beats 1 and 3
C17_Witness ==
  /\ lastOp.kind = "chordSelect"
  /\ \E M \in AllMeasures :
       /\ Bearing(M.beats) = {1, 3}
       /\ {p \in 1..4 : M.beats[p].isHold} = {2, 4}

\* C18: in every bar chart the editor can reach, beat 1 of a measure is no
\* hold, a hold has no chord, and running the hold loop over the beats of
\* a measure gives the same beats.
C18_HoldsConsistent ==
  \A M \in AllMeasures :
    /\ DOMAIN M.beats = 1..4
    /\ ~M.beats[1].isHold
    /\ \A p \in 1..4 : M.beats[p].isHold => M.beats[p].chord = <<>>
    /\ HoldLoop(M.beats, 0, -1) = M.beats

\* measures were added to a line that has a measure with a hold
C18_Witness ==
  /\ lastOp.kind = "measuresPerLine"
  /\ document.measuresPerLine > 4
  /\ \E M \in AllMeasures : \E p \in 1..4 : M.beats[p].isHold

\* C19: a measure is shown compact, with the one cell of its first chord
\* (beat 1 without a chord), exactly when at most one of its beats has a
\* chord and its id is not force-expanded; otherwise its four beats are
\* shown, each with a cell of its own to click.
C19_DisplayMode ==
  \A pl \in Places :
    LET M == MeasureAt(pl[1], pl[2], pl[3])
        compact == Cardinality(Bearing(M.beats)) <= 1 /\ M.id \notin expandedMeasureIds
        cells == {b \in 1..4 : ENABLED HandleBeatClick(pl[1], pl[2], pl[3], b)}
    IN BarIdle =>
         /\ compact => Cardinality(cells) = 1 /\ (Bearing(M.beats) \subseteq cells)
         /\ ~compact => cells = 1..4

\* a force-expanded measure with a single chord
C19_Witness ==
  /\ BarIdle
  /\ \E pl \in Places :
       /\ Cardinality(Bearing(MeasureAt(pl[1], pl[2], pl[3]).beats)) = 1
       /\ MeasureAt(pl[1], pl[2], pl[3]).id \in expandedMeasureIds

\* C20: a force-expanded measure stays force-expanded through every
\* operation until a chord of it is removed through the compact view's
\* remove action.
C20_StickyUntilCompactRemove ==
  [][\A id \in expandedMeasureIds :
       id \notin expandedMeasureIds' =>
         /\ lastOp'.kind = "removeCompact"
         /\ expandedMeasureIds' = expandedMeasureIds \ {id}]_vars

\* C20, amended: a force-expanded measure stays force-expanded through
\* every operation until a chord of it is removed by a right-click on one
\* of its beats; that removal clears the flag, and of this measure only.
C20_StickyUntilRemove ==
  [][/\ \A id \in expandedMeasureIds :
          id \notin expandedMeasureIds' =>
            /\ \E pl \in Places, b \in 1..4 :
                 /\ MeasureAt(pl[1], pl[2], pl[3]).id = id
                 /\ HandleBeatRightClick(pl[1], pl[2], pl[3], b)
            /\ expandedMeasureIds' = expandedMeasureIds \ {id}
     /\ \A pl \in Places, b \in 1..4 :
          HandleBeatRightClick(pl[1], pl[2], pl[3], b) =>
            MeasureAt(pl[1], pl[2], pl[3]).id \notin expandedMeasureIds']_vars

\* the only chord of a force-expanded measure was just removed
C20_Witness ==
  /\ lastOp.kind = "removeExpanded"
  /\ MeasureShown(lastOp.lineIndex, lastOp.col, lastOp.n)
  /\ Bearing(MeasureAt(lastOp.lineIndex, lastOp.col, lastOp.n).beats) = {}
  /\ MeasureAt(lastOp.lineIndex, lastOp.col, lastOp.n).id \notin expandedMeasureIds

\* ---- chord transposition (utils/transpose.ts) and the chord catalogue ----
\* A chord symbol is a sequence of characters.  The characters U+266F (sharp
\* sign) and U+266D (flat sign) are written SharpSign and FlatSign; they are
\* different characters from the ASCII "#" and "b".
SharpSign == "sharp"
FlatSign == "flat"

\* no match, no bass note: a note is never empty
Undefined == <<>>

\* the null parseChord returns: a parsed chord always has a root
Null == [root |-> Undefined, quality |-> <<>>, bass |-> Undefined]

CHROMATIC_SHARP ==
  << <<"C">>, <<"C", SharpSign>>, <<"D">>, <<"D", SharpSign>>, <<"E">>, <<"F">>,
     <<"F", SharpSign>>, <<"G">>, <<"G", SharpSign>>, <<"A">>, <<"A", SharpSign>>, <<"B">> >>

CHROMATIC_FLAT ==
  << <<"C">>, <<"D", FlatSign>>, <<"D">>, <<"E", FlatSign>>, <<"E">>, <<"F">>,
     <<"G", FlatSign>>, <<"G">>, <<"A", FlatSign>>, <<"A">>, <<"B", FlatSign>>, <<"B">> >>

NOTE_TO_INDEX ==
  (<<"C">> :> 0) @@ (<<"C", SharpSign>> :> 1) @@ (<<"C", "#">> :> 1)
    @@ (<<"D", FlatSign>> :> 1) @@ (<<"D", "b">> :> 1)
  @@ (<<"D">> :> 2) @@ (<<"D", SharpSign>> :> 3) @@ (<<"D", "#">> :> 3)
    @@ (<<"E", FlatSign>> :> 3) @@ (<<"E", "b">> :> 3)
  @@ (<<"E">> :> 4) @@ (<<"E", SharpSign>> :> 5) @@ (<<"E", "#">> :> 5)
    @@ (<<"F", FlatSign>> :> 4) @@ (<<"F", "b">> :> 4)
  @@ (<<"F">> :> 5) @@ (<<"F", SharpSign>> :> 6) @@ (<<"F", "#">> :> 6)
    @@ (<<"G", FlatSign>> :> 6) @@ (<<"G", "b">> :> 6)
  @@ (<<"G">> :> 7) @@ (<<"G", SharpSign>> :> 8) @@ (<<"G", "#">> :> 8)
    @@ (<<"A", FlatSign>> :> 8) @@ (<<"A", "b">> :> 8)
  @@ (<<"A">> :> 9) @@ (<<"A", SharpSign>> :> 10) @@ (<<"A", "#">> :> 10)
    @@ (<<"B", FlatSign>> :> 10) @@ (<<"B", "b">> :> 10)
  @@ (<<"B">> :> 11) @@ (<<"B", SharpSign>> :> 0) @@ (<<"B", "#">> :> 0)
    @@ (<<"C", FlatSign>> :> 11) @@ (<<"C", "b">> :> 11)

\* String.prototype.indexOf: the 0-based position of the first c in s, or -1
IndexOfChar(s, c) ==
  IF \E i \in 1..Len(s) : s[i] = c
  THEN (CHOOSE i \in 1..Len(s) : s[i] = c /\ \A j \in 1..(i - 1) : s[j] # c) - 1
  ELSE -1

\* String.prototype.replace with a string pattern: the first occurrence only
ReplaceFirst(s, from, to) ==
  LET i == IndexOfChar(s, from)
  IN IF i < 0 THEN s ELSE [s EXCEPT ![i + 1] = to]

\* the match of /^([A-G])([#b sharp flat])?/ at the start of s, or Undefined
NoteMatch(s) ==
  IF Len(s) >= 1 /\ s[1] \in {"A", "B", "C", "D", "E", "F", "G"}
  THEN IF Len(s) >= 2 /\ s[2] \in {SharpSign, FlatSign, "#", "b"}
       THEN <<s[1], s[2]>>
       ELSE <<s[1]>>
  ELSE Undefined

parseChord(chord) ==
  IF chord = <<>> \/ (\A i \in 1..Len(chord) : chord[i] = " ")
  THEN Null
  ELSE LET slashIndex == IndexOfChar(chord, "/")
           mainChord == IF slashIndex > 0 THEN SubSeq(chord, 1, slashIndex) ELSE chord
           bassStr == SubSeq(chord, slashIndex + 2, Len(chord))
           bassNote == IF slashIndex > 0 /\ Len(bassStr) >= 1
                       THEN NoteMatch(bassStr)
                       ELSE Undefined
           root == NoteMatch(mainChord)
       IN IF root = Undefined
          THEN Null
          ELSE [root |-> root,
                quality |-> SubSeq(mainChord, Len(root) + 1, Len(mainChord)),
                bass |-> bassNote]

\* the remainder operator of the language: the sign of the dividend
Remainder(a, b) == IF a >= 0 THEN a % b ELSE -((-a) % b)

transposeNoteSharp(note, semitones, preferFlats) ==
  LET normalizedNote == ReplaceFirst(ReplaceFirst(note, "#", SharpSign), "b", FlatSign)
      known == normalizedNote \in DOMAIN NOTE_TO_INDEX \/ note \in DOMAIN NOTE_TO_INDEX
      index == IF normalizedNote \in DOMAIN NOTE_TO_INDEX
               THEN NOTE_TO_INDEX[normalizedNote]
               ELSE NOTE_TO_INDEX[note]
      rem == Remainder(index + semitones, 12)
      newIndex == IF rem < 0 THEN rem + 12 ELSE rem
  IN IF ~known THEN note ELSE CHROMATIC_SHARP[newIndex + 1]

transposeNote(note, semitones, preferFlats) ==
  LET normalizedNote == ReplaceFirst(ReplaceFirst(note, "#", SharpSign), "b", FlatSign)
      known == normalizedNote \in DOMAIN NOTE_TO_INDEX \/ note \in DOMAIN NOTE_TO_INDEX
      index == IF normalizedNote \in DOMAIN NOTE_TO_INDEX
               THEN NOTE_TO_INDEX[normalizedNote]
               ELSE NOTE_TO_INDEX[note]
      rem == Remainder(index + semitones, 12)
      newIndex == IF rem < 0 THEN rem + 12 ELSE rem
      scale == IF preferFlats THEN CHROMATIC_FLAT ELSE CHROMATIC_SHARP
  IN IF ~known THEN note ELSE scale[newIndex + 1]

transposeChord(chord, semitones, preferFlats) ==
  LET parsed == parseChord(chord)
      newRoot == transposeNote(parsed.root, semitones, preferFlats)
      result == newRoot \o parsed.quality
  IN IF semitones = 0 THEN chord
     ELSE IF parsed = Null THEN chord
     ELSE IF parsed.bass # Undefined
          THEN result \o <<"/">> \o transposeNote(parsed.bass, semitones, preferFlats)
          ELSE result

shouldPreferFlats(chordSymbol) ==
  \E i \in 1..Len(chordSymbol) : chordSymbol[i] \in {FlatSign, "b"}

ROOT_NOTES ==
  << <<"A">>, <<"A", SharpSign>>, <<"B", FlatSign>>, <<"B">>, <<"C">>, <<"C", SharpSign>>,
     <<"D", FlatSign>>, <<"D">>, <<"D", SharpSign>>, <<"E", FlatSign>>, <<"E">>, <<"F">>,
     <<"F", SharpSign>>, <<"G", FlatSign>>, <<"G">>, <<"G", SharpSign>>, <<"A", FlatSign>> >>

\* the symbols generateChordsForRoot builds for one root, in its order
generateChordsForRoot(root) ==
  << root,
     root \o <<"m">>,
     root \o <<"7">>,
     root \o <<"m", "a", "j", "7">>,
     root \o <<"m", "7">>,
     root \o <<"m", "(", "m", "a", "j", "7", ")">>,
     root \o <<"s", "u", "s", "2">>,
     root \o <<"s", "u", "s", "4">>,
     root \o <<"7", "s", "u", "s", "4">>,
     root \o <<"a", "d", "d", "9">>,
     root \o <<"a", "d", "d", "1", "1">>,
     root \o <<"m", "a", "d", "d", "9">>,
     root \o <<"9">>,
     root \o <<"m", "9">>,
     root \o <<"m", "a", "j", "9">>,
     root \o <<"1", "1">>,
     root \o <<"m", "1", "1">>,
     root \o <<"1", "3">>,
     root \o <<"d", "i", "m">>,
     root \o <<"d", "i", "m", "7">>,
     root \o <<"a", "u", "g">>,
     root \o <<"a", "u", "g", "7">>,
     root \o <<"5">>,
     root \o <<"6">>,
     root \o <<"m", "6">> >>

\* the symbols of the chord database
buildChordDatabase ==
  UNION {{generateChordsForRoot(ROOT_NOTES[r])[q] : q \in 1..25} : r \in 1..Len(ROOT_NOTES)}

\* the transpose control keeps its value in -12..12
Semitones == (0 - 12)..12

\* symbols handed to transposeChord: the chord database and two slash chords
TransposeSymbols ==
  buildChordDatabase \cup {<<"A", "m", "/", "G">>, <<"B", "b", "/", "E", FlatSign>>}

AppVars ==
  <<docVars, histVars, fileVars, uiVars, dragVars, barVars, indicatorVars, importVars, dialogVars, nextChordId,
    edits, ghostVars>>

\* transposeChord(chord, semitones, preferFlats) is called
Transpose(chord, semitones, preferFlats) ==
  /\ applied.fn = "none"
  /\ applied' = [fn |-> "transposeChord", chord |-> chord, semitones |-> semitones,
                 preferFlats |-> <<preferFlats>>]
  /\ returned' = <<transposeChord(chord, semitones, preferFlats)>>
  /\ UNCHANGED AppVars

\* transposeChord is called on what the first call returned, with the
\* opposite number of semitones
TransposeBack(preferFlats) ==
  /\ applied.fn = "transposeChord"
  /\ Len(returned) = 1
  /\ applied' = [applied EXCEPT !.preferFlats = Append(@, preferFlats)]
  /\ returned' = Append(returned, transposeChord(returned[1], 0 - applied.semitones, preferFlats))
  /\ UNCHANGED AppVars

NextTranspose ==
  \/ /\ applied.fn = "none"
     /\ \E chord \in TransposeSymbols, semitones \in Semitones, preferFlats \in BOOLEAN :
          Transpose(chord, semitones, preferFlats)
  \/ \E preferFlats \in BOOLEAN : TransposeBack(preferFlats)

SpecTranspose == Init /\ [][NextTranspose]_vars

\* a catalogue symbol was transposed and the result transposed back
RoundTrip ==
  /\ applied.fn = "transposeChord"
  /\ Len(returned) = 2
  /\ applied.chord \in buildChordDatabase

\* each call was given the preference shouldPreferFlats gives for the symbol
\* that call transposes, as the renderers do
PreferencePerCall ==
  /\ applied.preferFlats[1] = shouldPreferFlats(applied.chord)
  /\ applied.preferFlats[2] = shouldPreferFlats(returned[1])

\* both calls were given the preference of the original symbol
PreferenceOfOriginal ==
  /\ applied.preferFlats[1] = shouldPreferFlats(applied.chord)
  /\ applied.preferFlats[2] = shouldPreferFlats(applied.chord)

\* C21 as stated: a catalogue symbol transposed by +n and the result
\* transposed by -n is the original symbol, each transposition choosing its
\* accidentals from the symbol it is given.
C21_RoundTrip ==
  (RoundTrip /\ PreferencePerCall) => returned[2] = applied.chord

\* C21 amended: a catalogue symbol transposed by +n and the result transposed
\* by -n is the original symbol when both transpositions use the accidental
\* preference of the original symbol.
C21_RoundTripOriginalPreference ==
  (RoundTrip /\ PreferenceOfOriginal) => returned[2] = applied.chord

\* a flat-rooted chord went through a natural note and came back
C21_Witness ==
  /\ RoundTrip
  /\ PreferenceOfOriginal
  /\ applied.chord = <<"D", FlatSign, "m", "7">>
  /\ applied.semitones = 1
  /\ returned = << <<"D", "m", "7">>, <<"D", FlatSign, "m", "7">> >>

\* ------------------------------------ column count 3 to 2: properties
\* the chords cs with their lineIndex moved by d
ShiftedBy(cs, d) == [k \in 1..Len(cs) |-> [cs[k] EXCEPT !.lineIndex = cs[k].lineIndex + d]]

\* the chord with a given id of a chord list is on a line with this text
OnLineText(cs, txt, id, line) ==
  \E k \in 1..Len(cs) :
     /\ cs[k].id = id
     /\ cs[k].lineIndex >= 0
     /\ cs[k].lineIndex < Len(SplitNL(txt))
     /\ SplitNL(txt)[cs[k].lineIndex + 1] = line

\* C22: a switch from 3 to 2 columns makes the second column (right under
\* LTR, left under RTL) the middle column's text, a line break and the
\* second column's previous text, its chords the middle column's chords as
\* they were followed by the second column's previous chords moved down by
\* the middle column's line count, and so every chord of the two columns is
\* afterwards on a line with the text its line had before.
C22_MergeColumns ==
  [][(ToggleColumnCount /\ columnCount = 3) =>
       LET s == SecondColumn(direction)
       IN /\ text'[s] = text["middle"] \o <<NL>> \o text[s]
          /\ chords'[s] = chords["middle"] \o ShiftedBy(chords[s], LineCount("middle"))
          /\ \A c \in {"middle", s} : \A k \in 1..Len(chords[c]) :
                OnLineText(chords'[s], text'[s], chords[c][k].id,
                           Lines(c)[chords[c][k].lineIndex + 1])]_vars

\* ----------------------------------------- the title and a full history
\* onTitleChange={setTitle}: a key typed in the title input
HandleTitleChange(value) ==
  /\ NoDropdown
  /\ value # title
  /\ title' = value
  /\ UNCHANGED <<text, chords, direction, columnCount, history, historyIndex, currentDocId,
                 autoSaved>>
  /\ Effects(isUndoRedoRef, TRUE, TRUE, hasUnsavedChanges)
  /\ UNCHANGED <<uiVars, dragVars, barVars, pureVars, indicatorVars, importVars, dialogVars, nextChordId, edits,
                 anchor>>
  /\ Plain("title", "left", 0)

\* a letter of the title typed and deleted
Titles == {"", "S"}

NextTyping ==
  \/ \E value \in Titles : HandleTitleChange(value)
  \/ HistoryTimeoutFires
  \/ HandleUndo
  \/ HandleRedo

SpecTyping == Init /\ [][NextTyping]_vars

FrameDocs == {HelloWorld}

NextFrame ==
  \/ \E doc \in FrameDocs : HandleLoadDocument(doc)
  \/ HandleLineChange("left", 0, <<"a", "b">>)
  \/ HandleEnter("left", 0, 0)
  \/ ToggleChordMode("left")
  \/ HandleCharClick("left", 0, 0)
  \/ HandleSelectChord("left", "Am")
  \/ \E k \in 1..Min(1, Len(chords["left"])) : HandleChordDragStart("left", k, Px(100))
  \/ HandleMouseMove("left", Px(104))
  \/ HandleMouseUp
  \/ ToggleColumnCount
  \/ HistoryTimeoutFires
  \/ HandleUndo
  \/ HandleRedo

SpecFrame == Init /\ [][NextFrame]_vars

\* C24: a step leaves the history as it is, or keeps a run of its entries
\* unchanged and in order (all of them, or all but the oldest, or the ones
\* up to some entry) and adds one snapshot after them; no stored snapshot is
\* ever changed by an edit.
C24_SnapshotsFrozen ==
  [][\/ history' = history
     \/ /\ Len(history') >= 1
        /\ \E from \in 1..2, to \in 0..Len(history) :
              /\ from = 2 => (to = Len(history) /\ Len(history) = MAX_HISTORY_SIZE)
              /\ Len(history') = to - from + 2
              /\ \A k \in from..to : history'[k - from + 1] = history[k]]_vars

\* a chord was dragged after its snapshot was stored: the snapshot still has
\* the chord where it was
C24_Witness ==
  /\ lastOp.kind = "dragMove"
  /\ historyIndex >= 0
  /\ Len(history) = historyIndex + 1
  /\ history[historyIndex + 1].text = text
  /\ Len(history[historyIndex + 1].chords["left"]) = 1
  /\ Len(chords["left"]) = 1
  /\ history[historyIndex + 1].chords["left"][1].offsetX = 0
  /\ chords["left"][1].offsetX # 0

\* ------------------------------------------------ undo followed by redo
\* C25: after an undo, redo is available, and a redo that follows the undo
\* directly makes the title, the column texts and the chords exactly what
\* they were before the undo, also when the latest edit had no snapshot yet.
C25_UndoRedo ==
  [][/\ HandleUndo => historyIndex' < Len(history') - 1
     /\ (lastOp.kind = "undo" /\ HandleRedo) => Snapshot' = beforeUndo[1]]_vars

\* ------------------------------------- a new document and the history
\* resetDocument: New, directly or after the unsaved-changes dialog is
\* confirmed
ResetDocument ==
  /\ NoDropdown
  /\ title' = ""
  /\ text' = [c \in Columns |-> <<>>]
  /\ chords' = [c \in Columns |-> <<>>]
  /\ direction' = "ltr"
  /\ columnCount' = 2
  /\ currentDocId' = <<>>
  /\ autoSaved' = <<>>
  /\ UNCHANGED <<history, historyIndex>>
  /\ Effects(isUndoRedoRef, Snapshot' # Snapshot, TRUE, FALSE)
  /\ ToolbarClick(2)
  /\ edits < MaxEdits
  /\ edits' = edits + 1
  /\ UNCHANGED <<copiedSection, nextChordId>>
  /\ Reanchor
  /\ Plain("new", "left", 0)
  /\ UNCHANGED <<barVars, pureVars, indicatorVars>>
  /\ statusMessage' = <<"New document created">>
  /\ UNCHANGED pageFontSize

NextReset ==
  \/ \E doc \in {HelloWorld, Verses} : HandleLoadDocument(doc)
  \/ ResetDocument
  \/ \E i \in 0..(LineCount("left") - 1) : HandleLineChange("left", i, <<"a", "b">>)
  \/ \E i \in 0..(LineCount("left") - 1) : HandleEnter("left", i, 0)
  \/ HistoryTimeoutFires
  \/ HandleUndo
  \/ HandleRedo

SpecReset == Init /\ [][NextReset]_vars

\* C26: a load of a document and a new document leave the history empty, so
\* that undo is unavailable afterwards and no snapshot of the document that
\* was open before is left to go back to.
C26_LoadClearsHistory ==
  [][((\E doc \in {HelloWorld, Verses} : HandleLoadDocument(doc)) \/ ResetDocument) =>
       /\ history' = <<>>
       /\ historyIndex' <= 0]_vars

\* ------------------------------------------------- import from a file
\* A chosen file is unreadable, is text that JSON.parse rejects, or holds
\* a JSON value: null, a number, or an object, given by a document and the
\* set of the document's fields the object has.
Unreadable == [kind |-> "unreadable", has |-> {}, doc |-> HelloWorld]
NotJson == [kind |-> "text", has |-> {}, doc |-> HelloWorld]
JsonNull == [kind |-> "null", has |-> {}, doc |-> HelloWorld]
JsonNumber == [kind |-> "number", has |-> {}, doc |-> HelloWorld]
JsonObject(has, doc) == [kind |-> "object", has |-> has, doc |-> doc]

AllFields == {"title", "text", "chords", "direction", "columnCount"}

\* the promise importFromJson returns, settled: the first of reject and
\* resolve that is called settles it
importFromJsonResolving(file) ==
  IF file.kind = "unreadable"
  THEN [rejected |-> TRUE, error |-> "Failed to read file"]
  ELSE IF file.kind \in {"text", "null"}
  THEN [rejected |-> TRUE, error |-> "Failed to parse document file"]
  ELSE [rejected |-> FALSE, error |-> ""]

importFromJson(file) ==
  IF file.kind = "unreadable"
  THEN [rejected |-> TRUE, error |-> "Failed to read file"]
  ELSE IF file.kind \in {"text", "null"}
  THEN [rejected |-> TRUE, error |-> "Failed to parse document file"]
  ELSE IF file.kind = "number" \/ "title" \notin file.has
  THEN [rejected |-> TRUE, error |-> "Invalid document format"]
  ELSE [rejected |-> FALSE, error |-> ""]

\* doc.field || fallback, for a field whose falsy value is the fallback
FieldOr(file, field, fallback) ==
  IF file.kind = "object" /\ field \in file.has THEN file.doc[field] ELSE fallback

\* handleFileImport with a file chosen
HandleFileImport(file) ==
  /\ NoDropdown
  /\ edits < MaxEdits
  /\ edits' = edits + 1
  /\ IF importFromJson(file).rejected
     THEN /\ statusMessage' = <<"Failed to import file: Invalid format">>
          /\ UNCHANGED <<docVars, histVars, fileVars, pageFontSize, anchor>>
     ELSE /\ title' = FieldOr(file, "title", "")
          /\ text' = FieldOr(file, "text", [c \in Columns |-> <<>>])
          /\ chords' = FieldOr(file, "chords", [c \in Columns |-> <<>>])
          /\ direction' = FieldOr(file, "direction", "ltr")
          /\ columnCount' = FieldOr(file, "columnCount", 2)
          /\ pageFontSize' = 14
          /\ currentDocId' = <<>>
          /\ statusMessage' = <<"Song imported successfully">>
          /\ UNCHANGED <<history, historyIndex, autoSaved>>
          /\ Effects(isUndoRedoRef, Snapshot' # Snapshot,
                     Snapshot' # Snapshot \/ direction' # direction \/ columnCount' # columnCount,
                     TRUE)
          /\ Reanchor
  /\ ToolbarClick(columnCount')
  /\ UNCHANGED <<copiedSection, nextChordId, barVars, pureVars, indicatorVars>>
  /\ lastOp' = Op("import", "left", 0, IF importFromJson(file).rejected THEN 0 ELSE 1)
  /\ beforeEnter' = <<>>
  /\ beforeUndo' = <<>>
  /\ dropped' = <<>>
  /\ pointer' = <<>>

\* the 2 s timer of showStatusMessage fires
StatusTimeoutFires ==
  /\ statusMessage # <<>>
  /\ statusMessage' = <<>>
  /\ UNCHANGED <<docVars, histVars, fileVars, uiVars, dragVars, barVars, pureVars, indicatorVars, pageFontSize,
                 dialogVars, nextChordId, edits, ghostVars>>

ImportFiles ==
  {Unreadable, NotJson, JsonNull, JsonNumber,
   JsonObject({}, Verses), JsonObject(AllFields \ {"title"}, Verses),
   JsonObject({"title"}, Verses), JsonObject(AllFields, Verses)}

NextImport ==
  \/ HandleLoadDocument(HelloWorld)
  \/ HandleLineChange("left", 0, <<"a", "b">>)
  \/ \E file \in ImportFiles : HandleFileImport(file)
  \/ StatusTimeoutFires
  \/ HistoryTimeoutFires

SpecImport == Init /\ [][NextImport]_vars

\* a file whose import fails: it cannot be read, it is no JSON, or its JSON
\* value has no title
FailingFile(file) == file.kind # "object" \/ "title" \notin file.has

\* C27: an import of a file that cannot be read or parsed or that holds no
\* document is reported by the status message and leaves the title, the
\* column texts and chords, the direction, the column count, the font size,
\* the current document id and the unsaved-changes flag as they were.
C27_FailedImport ==
  [][\A file \in ImportFiles :
       (HandleFileImport(file) /\ FailingFile(file)) =>
          /\ statusMessage' = <<"Failed to import file: Invalid format">>
          /\ UNCHANGED <<title, text, chords, direction, columnCount, pageFontSize,
                         currentDocId, hasUnsavedChanges>>]_vars

\* a failed import happened while a loaded and edited document was open
C27_Witness ==
  /\ lastOp = Op("import", "left", 0, 0)
  /\ statusMessage = <<"Failed to import file: Invalid format">>
  /\ currentDocId = <<"doc-1">>
  /\ text["left"] = <<"a", "b", NL, "w", "o", "r", "l", "d">>
  /\ hasUnsavedChanges

\* ------------------------------------ events outside a handler's guard
\* handleLineKeyDown, Backspace with the cursor at the start of the line:
\* the merge when the guard holds; otherwise no branch of the handler is
\* taken and the input has nothing before the cursor to delete
HandleBackspaceKey(col, lineIndex) ==
  \/ HandleBackspace(col, lineIndex)
  \/ /\ CanEdit(col, lineIndex)
     /\ ~BackspaceGuard(Lines(col), lineIndex)
     /\ UNCHANGED <<docVars, histVars, fileVars, uiVars, dragVars, barVars, pureVars, indicatorVars, importVars,
                    dialogVars, nextChordId, edits, anchor>>
     /\ Plain("backspaceKey", col, lineIndex)

NextGuards ==
  \/ \E doc \in {HelloWorld, Verses} : HandleLoadDocument(doc)
  \/ \E i \in 0..(LineCount("left") - 1) : HandleBackspaceKey("left", i)
  \/ \E k \in 1..Len(chords["left"]) : HandleChordDragStart("left", k, Px(100))
  \/ \E x \in {Px(0), Px(104)} : HandleMouseMove("left", x)
  \/ HandleMouseUp

SpecGuards == Init /\ [][NextGuards]_vars

\* a handler ended with an error instead of returning
Failed == lastOp.kind = "error"

\* C28: a Backspace that would merge a line that is not empty (or line 0)
\* into the line above, and a drag move while no chord is dragged, end with
\* an error; they are never ignored.
C28_FailFast ==
  [][/\ \A i \in 0..(LineCount("left") - 1) :
          (HandleBackspaceKey("left", i) /\ ~BackspaceGuard(Lines("left"), i)) => Failed'
     /\ \A x \in {Px(0), Px(104)} :
          (HandleMouseMove("left", x) /\ ~Dragging("left")) => Failed']_vars

\* ------------------------------------------------ the chord picker (C29)
\* the display-mode line, onClick: setEditingLineIndex(lineIndex); the click
\* does not reach the document (stopPropagation)
HandleLineClick(col, lineIndex) ==
  /\ Visible(col)
  /\ NoDropdown
  /\ ~chordMode[col]
  /\ lineIndex \in 0..(LineCount(col) - 1)
  /\ editingLineIndex[col] # <<lineIndex>>
  /\ editingLineIndex' = Focus(col, lineIndex)
  /\ UNCHANGED <<showDeleteConfirm, editingChordId>>
  /\ UNCHANGED <<docVars, histVars, fileVars, uiVars, dragVars, nextChordId, edits, anchor>>
  /\ Plain("lineClick", col, lineIndex)
  /\ UNCHANGED <<barVars, pureVars, indicatorVars, importVars>>

\* the line input, onBlur: setEditingLineIndex(null)
HandleLineBlur(col) ==
  /\ Visible(col)
  /\ editingLineIndex[col] # <<>>
  /\ editingLineIndex' = [editingLineIndex EXCEPT ![col] = <<>>]
  /\ UNCHANGED <<showDeleteConfirm, editingChordId>>
  /\ UNCHANGED <<docVars, histVars, fileVars, uiVars, dragVars, nextChordId, edits, anchor>>
  /\ Plain("blur", col, 0)
  /\ UNCHANGED <<barVars, pureVars, indicatorVars, importVars>>

\* a click on character charIndex of the text of a line that is not being
\* edited: in chord mode the characters are spans with handleCharClick, out
\* of chord mode the text is the display-mode line
HandleLineTextClick(col, lineIndex, charIndex) ==
  IF chordMode[col]
  THEN HandleCharClick(col, lineIndex, charIndex)
  ELSE HandleLineClick(col, lineIndex)

\* the context menu of a chord is contextMenuChordId = chord.id, the menu of
\* a section is "section-<lineIndex>": the chord with id n is kept as -n, the
\* section of line i as i
ChordMenu(id) == <<0 - id>>

ChordMenuOpen(col) ==
  /\ Visible(col)
  /\ contextMenuChordId[col] # <<>>
  /\ contextMenuChordId[col][1] < 0

\* handleChordContextMenu
HandleChordContextMenu(col, k) ==
  /\ ChordShown(col, k)
  /\ NoDropdown
  /\ contextMenuChordId' = [contextMenuChordId EXCEPT ![col] = ChordMenu(chords[col][k].id)]
  /\ selectedChordId' = [selectedChordId EXCEPT ![col] = <<chords[col][k].id>>]
  /\ UNCHANGED <<draggingChordId, dragStartX, dragStartOffset>>
  /\ UNCHANGED <<copiedSection, chordMode, pendingChordPosition>>
  /\ UNCHANGED <<docVars, histVars, fileVars, nextChordId, edits, anchor>>
  /\ Plain("chordMenu", col, chords[col][k].lineIndex)
  /\ UNCHANGED <<barVars, pureVars, indicatorVars, importVars, dialogVars>>

\* handleChangeChordClick: the picker opens for the chord of the menu
HandleChangeChordClick(col) ==
  /\ ChordMenuOpen(col)
  /\ editingChordId' = [editingChordId EXCEPT ![col] = <<0 - contextMenuChordId[col][1]>>]
  /\ contextMenuChordId' = [contextMenuChordId EXCEPT ![col] = <<>>]
  /\ UNCHANGED <<showDeleteConfirm, editingLineIndex>>
  /\ UNCHANGED <<copiedSection, chordMode, pendingChordPosition>>
  /\ UNCHANGED <<docVars, histVars, fileVars, dragVars, nextChordId, edits, anchor>>
  /\ Plain("changeClick", col, 0)
  /\ UNCHANGED <<barVars, pureVars, indicatorVars, importVars>>

PickerDocs == {HelloWorld}
PickerColumns == {"left"}
PickerSymbols == {"G", "Am"}

NextPicker ==
  \/ \E doc \in PickerDocs : HandleLoadDocument(doc)
  \/ \E c \in PickerColumns : ToggleChordMode(c)
  \/ \E c \in PickerColumns : \E i \in 0..(LineCount(c) - 1), ch \in 0..1 :
        HandleLineTextClick(c, i, ch)
  \/ \E i \in 0..(LineCount("left") - 1) : HandleChordRowClick("left", i, 2)
  \/ \E k \in 1..Len(chords["left"]) : HandleChordContextMenu("left", k)
  \/ HandleChangeChordClick("left")
  \/ \E c \in PickerColumns, symbol \in PickerSymbols : HandleSelectChord(c, symbol)
  \/ \E c \in PickerColumns : HandleCloseDropdown(c)
  \/ HandleEscapeKey("left")

SpecPicker == Init /\ [][NextPicker]_vars

AllChordIds == UNION {ChordIds(c) : c \in Columns}

\* the picker of column c was opened by a click on a character
OpenedByClick(c) == pendingChordPosition[c] # <<>> /\ editingChordId[c] = <<>>

HandleChordClick(col, k) ==
  /\ ChordShown(col, k)
  /\ NoDropdown
  /\ selectedChordId' = [selectedChordId EXCEPT ![col] =
                           IF @ = <<chords[col][k].id>> THEN <<>> ELSE <<chords[col][k].id>>]
  /\ UNCHANGED <<draggingChordId, dragStartX, dragStartOffset>>
  /\ UNCHANGED <<docVars, histVars, fileVars, uiVars, nextChordId, edits, anchor>>
  /\ Plain("chordClick", col, chords[col][k].lineIndex)
  /\ UNCHANGED <<barVars, pureVars, indicatorVars, importVars, dialogVars>>

\* handleDeleteClick, "Delete Chord" of the chord context menu
HandleDeleteClick(col) ==
  /\ ChordMenuOpen(col)
  /\ showDeleteConfirm' = [showDeleteConfirm EXCEPT ![col] = <<0 - contextMenuChordId[col][1]>>]
  /\ contextMenuChordId' = [contextMenuChordId EXCEPT ![col] = <<>>]
  /\ UNCHANGED <<editingLineIndex, editingChordId>>
  /\ UNCHANGED <<copiedSection, chordMode, pendingChordPosition>>
  /\ UNCHANGED <<docVars, histVars, fileVars, dragVars, nextChordId, edits, anchor>>
  /\ Plain("deleteClick", col, 0)
  /\ UNCHANGED <<barVars, pureVars, indicatorVars, importVars>>

\* the delete dialog of a column is shown
DeleteDialogOpen(col) == Visible(col) /\ showDeleteConfirm[col] # <<>>

\* confirmDelete: chords.filter(c => c.id !== showDeleteConfirm)
DeleteValue(cs, id) == SelectSeq(cs, LAMBDA c : c.id # id)

\* confirmDelete, the Yes button of the dialog
ConfirmDelete(col) ==
  /\ DeleteDialogOpen(col)
  /\ Commit(col, <<[set |-> "chords",
                    val |-> DeleteValue(chords[col], showDeleteConfirm[col][1])]>>)
  /\ ColumnEdit
  /\ selectedChordId' = [selectedChordId EXCEPT ![col] = <<>>]
  /\ showDeleteConfirm' = [showDeleteConfirm EXCEPT ![col] = <<>>]
  /\ UNCHANGED <<draggingChordId, dragStartX, dragStartOffset>>
  /\ UNCHANGED <<editingLineIndex, editingChordId>>
  /\ UNCHANGED <<uiVars, nextChordId, anchor>>
  /\ Plain("confirmDelete", col, 0)
  /\ UNCHANGED <<barVars, pureVars, indicatorVars, importVars>>

\* cancelDelete, the No button and a click on the overlay of the dialog
CancelDelete(col) ==
  /\ DeleteDialogOpen(col)
  /\ showDeleteConfirm' = [showDeleteConfirm EXCEPT ![col] = <<>>]
  /\ UNCHANGED <<editingLineIndex, editingChordId>>
  /\ UNCHANGED <<docVars, histVars, fileVars, uiVars, dragVars, nextChordId, edits, anchor>>
  /\ Plain("cancelDelete", col, 0)
  /\ UNCHANGED <<barVars, pureVars, indicatorVars, importVars>>

\* the keydown listener of an editor lets Delete or Backspace open its dialog
KeyOpens(col) ==
  /\ Visible(col)
  /\ selectedChordId[col] # <<>>
  /\ editingLineIndex[col] = <<>>
  /\ draggingChordId[col] = <<>>

\* Delete or Backspace pressed anywhere in the page: every editor on the
\* page has its keydown listener on the document
HandleDeleteKey ==
  /\ showDeleteConfirm' = [c \in Columns |->
                             IF KeyOpens(c) THEN selectedChordId[c] ELSE showDeleteConfirm[c]]
  /\ UNCHANGED <<editingLineIndex, editingChordId>>
  /\ UNCHANGED <<docVars, histVars, fileVars, uiVars, dragVars, nextChordId, edits, anchor>>
  /\ Plain("deleteKey", "left", 0)
  /\ UNCHANGED <<barVars, pureVars, indicatorVars, importVars>>

DeleteDocs == {Verses}
DeleteColumns == {"left", "right"}

NextDelete ==
  \/ \E doc \in DeleteDocs : HandleLoadDocument(doc)
  \/ \E c \in DeleteColumns : HandleLineClick(c, 0)
  \/ \E c \in DeleteColumns : HandleLineBlur(c)
  \/ \E k \in 1..Min(2, Len(chords["left"])) : HandleChordClick("left", k)
  \/ \E k \in 1..Min(2, Len(chords["left"])) : HandleChordContextMenu("left", k)
  \/ \E k \in 1..Min(2, Len(chords["left"])) : HandleChordDragStart("left", k, Px(100))
  \/ HandleMouseUp
  \/ HandleDeleteClick("left")
  \/ HandleDeleteKey
  \/ ConfirmDelete("left")
  \/ CancelDelete("left")
  \/ HandleEscapeKey("left")

SpecDelete == Init /\ [][NextDelete]_vars

\* the ids of the chords of all columns
ChordIdsOf(cs) == [c \in Columns |-> {cs[c][k].id : k \in 1..Len(cs[c])}]

\* C30: the delete action removes a chord only when the dialog for that
\* chord is confirmed. Confirming removes the chord of the dialog and no
\* other; No and Escape remove no chord and close the dialog; Delete or
\* Backspace opens a dialog only for a selected chord, while no line is being
\* edited and no drag is active; and no other step of selecting, menu or
\* dialog removes a chord.
C30_DeleteConfirmed ==
  [][/\ \A c \in DeleteColumns :
          /\ ConfirmDelete(c)
               => /\ ChordIdsOf(chords')[c] = ChordIds(c) \ {showDeleteConfirm[c][1]}
                  /\ chords'[c] = SelectSeq(chords[c], LAMBDA x : x.id \in ChordIdsOf(chords')[c])
                  /\ \A d \in Columns \ {c} : chords'[d] = chords[d]
          /\ (DeleteDialogOpen(c) /\ (CancelDelete(c) \/ HandleEscapeKey("left")))
               => /\ ChordIdsOf(chords') = ChordIdsOf(chords)
                  /\ showDeleteConfirm'[c] = <<>>
          /\ ChordIdsOf(chords')[c] # ChordIds(c)
               => \/ showDeleteConfirm[c] # <<>> /\ ConfirmDelete(c)
                  \/ \E doc \in DeleteDocs : HandleLoadDocument(doc)
     /\ HandleDeleteKey
          => \A c \in Columns :
                showDeleteConfirm'[c] # showDeleteConfirm[c]
                  => /\ selectedChordId[c] # <<>>
                     /\ showDeleteConfirm'[c] = selectedChordId[c]
                     /\ \A d \in Columns : editingLineIndex[d] = <<>>
                     /\ \A d \in Columns : draggingChordId[d] = <<>>]_vars


\* ------------------------------------------------ chord selection (C31)
\* the pointer went down on chord k of the column, which was not selected,
\* came up again, and nothing has happened since: the browser now sends
\* the click to that chord
PressedUnselected(col, k) ==
  /\ k \in 1..Len(chords[col])
  /\ pointer = <<[col |-> col, id |-> chords[col][k].id, was |-> FALSE, up |-> TRUE]>>

\* C31: a click on a chord that is not selected (the pointer goes down on
\* the chord, comes up on it without moving, and the click handler runs)
\* leaves that chord the selected chord of its column.
C31_ClickSelects ==
  [][\A k \in 1..Len(chords["left"]) :
       (PressedUnselected("left", k) /\ HandleChordClick("left", k))
         => selectedChordId'["left"] = <<chords["left"][k].id>>]_vars


\* ------------------------------------------------ chord search (C32)
\* the name generateChordsForRoot gives each chord, after the root
CHORD_NAMES ==
  << <<" ", "M", "a", "j", "o", "r">>,
     <<" ", "M", "i", "n", "o", "r">>,
     <<" ", "D", "o", "m", "i", "n", "a", "n", "t", " ", "7", "t", "h">>,
     <<" ", "M", "a", "j", "o", "r", " ", "7", "t", "h">>,
     <<" ", "M", "i", "n", "o", "r", " ", "7", "t", "h">>,
     <<" ", "M", "i", "n", "o", "r", " ", "M", "a", "j", "o", "r", " ", "7", "t", "h">>,
     <<" ", "S", "u", "s", "p", "e", "n", "d", "e", "d", " ", "2", "n", "d">>,
     <<" ", "S", "u", "s", "p", "e", "n", "d", "e", "d", " ", "4", "t", "h">>,
     <<" ", "7", "t", "h", " ", "S", "u", "s", "p", "e", "n", "d", "e", "d", " ", "4", "t", "h">>,
     <<" ", "A", "d", "d", " ", "9", "t", "h">>,
     <<" ", "A", "d", "d", " ", "1", "1", "t", "h">>,
     <<" ", "M", "i", "n", "o", "r", " ", "A", "d", "d", " ", "9", "t", "h">>,
     <<" ", "9", "t", "h">>,
     <<" ", "M", "i", "n", "o", "r", " ", "9", "t", "h">>,
     <<" ", "M", "a", "j", "o", "r", " ", "9", "t", "h">>,
     <<" ", "1", "1", "t", "h">>,
     <<" ", "M", "i", "n", "o", "r", " ", "1", "1", "t", "h">>,
     <<" ", "1", "3", "t", "h">>,
     <<" ", "D", "i", "m", "i", "n", "i", "s", "h", "e", "d">>,
     <<" ", "D", "i", "m", "i", "n", "i", "s", "h", "e", "d", " ", "7", "t", "h">>,
     <<" ", "A", "u", "g", "m", "e", "n", "t", "e", "d">>,
     <<" ", "A", "u", "g", "m", "e", "n", "t", "e", "d", " ", "7", "t", "h">>,
     <<" ", "P", "o", "w", "e", "r", " ", "C", "h", "o", "r", "d">>,
     <<" ", "6", "t", "h">>,
     <<" ", "M", "i", "n", "o", "r", " ", "6", "t", "h">> >>

\* buildChordDatabase: the chords of every root of ROOT_NOTES, in order
CHORD_DATABASE ==
  [n \in 1..(Len(ROOT_NOTES) * 25) |->
     LET root == ROOT_NOTES[((n - 1) \div 25) + 1]
         q == ((n - 1) % 25) + 1
     IN [symbol |-> generateChordsForRoot(root)[q], name |-> root \o CHORD_NAMES[q]]]

\* String.prototype.toLowerCase on the characters of the catalog and of the
\* queries; the accidental signs and the digits have no lower case
LowerCase == "A" :> "a" @@ "B" :> "b" @@ "C" :> "c" @@ "D" :> "d" @@ "E" :> "e" @@ "F" :> "f" @@ "G" :> "g" @@ "M" :> "m" @@ "P" :> "p" @@ "S" :> "s"

toLowerCase(s) == [k \in 1..Len(s) |-> IF s[k] \in DOMAIN LowerCase THEN LowerCase[s[k]] ELSE s[k]]

\* String.prototype.includes
includes(s, q) == \E i \in 0..(Len(s) - Len(q)) : SubSeq(s, i + 1, i + Len(q)) = q

\* a slip: only the symbol is searched
searchChordsBySymbol(query) ==
  IF Trim(query) = <<>> THEN CHORD_DATABASE
  ELSE LET normalizedQuery == Trim(toLowerCase(query))
       IN SelectSeq(CHORD_DATABASE,
                    LAMBDA chord : includes(toLowerCase(chord.symbol), normalizedQuery))

searchChords(query) ==
  IF Trim(query) = <<>> THEN CHORD_DATABASE
  ELSE LET normalizedQuery == Trim(toLowerCase(query))
       IN SelectSeq(CHORD_DATABASE,
                    LAMBDA chord : \/ includes(toLowerCase(chord.symbol), normalizedQuery)
                                   \/ includes(toLowerCase(chord.name), normalizedQuery))

\* what is typed into the search box of the picker
SearchChars == {" ", "m", "M", "a", "A", "7", "j", "d", "x", SharpSign}
Queries == {<<>>} \cup {<<a>> : a \in SearchChars} \cup {<<a, b>> : a, b \in SearchChars}

\* searchChords(query) is called
Search(query) ==
  /\ applied.fn = "none"
  /\ applied' = [fn |-> "searchChords", query |-> query]
  /\ returned' = <<searchChords(query)>>
  /\ UNCHANGED AppVars

NextSearch == applied.fn = "none" /\ \E query \in Queries : Search(query)

SpecSearch == Init /\ [][NextSearch]_vars

\* chord c contains q in its symbol or its name, whatever the case
Matches(c, q) ==
  \/ includes(toLowerCase(c.symbol), toLowerCase(q))
  \/ includes(toLowerCase(c.name), toLowerCase(q))

\* C32 as stated: an empty query returns the whole catalog, any other query
\* the catalog chords whose symbol or name contains the query, whatever the
\* case, in catalog order.
C32_SearchAsTyped ==
  applied.fn = "searchChords"
    => returned[1] = IF applied.query = <<>> THEN CHORD_DATABASE
                     ELSE SelectSeq(CHORD_DATABASE, LAMBDA c : Matches(c, applied.query))

\* C32 amended: the query is taken without the white space around it; when
\* nothing is left the whole catalog is returned, otherwise the catalog
\* chords whose symbol or name contains what is left, whatever the case, in
\* catalog order.
C32_SearchTrimmed ==
  applied.fn = "searchChords"
    => returned[1] = IF Trim(applied.query) = <<>> THEN CHORD_DATABASE
                     ELSE SelectSeq(CHORD_DATABASE, LAMBDA c : Matches(c, Trim(applied.query)))

\* C32 happens: " m" was searched, and the result holds chords (the
\* diminished chords among them) that do not contain " m"
C32_Witness ==
  /\ applied.fn = "searchChords"
  /\ applied.query = <<" ", "m">>
  /\ \E k \in 1..Len(returned[1]) : ~Matches(returned[1][k], applied.query)
  /\ Len(returned[1]) < Len(CHORD_DATABASE)


\* ------------------------------------------------ the ending bar line (C33)
\* isLastMeasureLine(rowIndex, side): the loop runs i from the last row down
\* to rowIndex (rows counted from 0)
RECURSIVE LastMeasureLoop(_, _, _, _)
LastMeasureLoop(rows, i, rowIndex, side) ==
  IF i < rowIndex THEN FALSE
  ELSE LET row == rows[i + 1]
       IN IF i = rowIndex
          THEN IF row.layout = "full" THEN row.leftLine.type = "measures"
               ELSE IF side = "right" /\ row.rightLine.type = "measures" THEN TRUE
               ELSE IF side = "left" /\ row.leftLine.type = "measures" /\ row.rightLine = NoLine
                    THEN TRUE
               ELSE LastMeasureLoop(rows, i - 1, rowIndex, side)
          ELSE IF row.leftLine.type = "measures" \/ row.rightLine.type = "measures" THEN FALSE
               ELSE LastMeasureLoop(rows, i - 1, rowIndex, side)

isLastMeasureLine(rowIndex, side) ==
  LastMeasureLoop(document.rows, Len(document.rows) - 1, rowIndex, side)

\* the measure lines renderRow displays, as <<row (from 1), side>>
DisplayedMeasureLines ==
  {p \in (1..Len(document.rows)) \X {"left", "right"} :
     /\ p[2] \in Sides(document.rows[p[1]])
     /\ LineOf(document.rows[p[1]], p[2]).type = "measures"}

\* p comes before q in the document: an earlier row, or the left side of the
\* same row
Before(p, q) == p[1] < q[1] \/ (p[1] = q[1] /\ p[2] = "left" /\ q[2] = "right")

\* C33: when the document displays a measure line, isLastMeasureLine reports
\* exactly one displayed measure line as the last, and it is the last
\* displayed measure line of the document.
C33_OneLastMeasureLine ==
  DisplayedMeasureLines # {}
    => \E p \in DisplayedMeasureLines :
          /\ \A q \in DisplayedMeasureLines : q = p \/ Before(q, p)
          /\ \A q \in DisplayedMeasureLines : isLastMeasureLine(q[1] - 1, q[2]) <=> q = p


\* ------------------------------------------------ history and document (C34)
\* C34: with a history that is not empty, historyIndex is an index of the
\* history, and when no snapshot timer is pending the document (title,
\* column texts, chords) is the history entry at historyIndex.
C34_HistoryTracksDocument ==
  history # <<>>
    => /\ historyIndex \in 0..(Len(history) - 1)
       /\ historyTimeout = <<>> => Snapshot = history[historyIndex + 1]

\* C34 happens: after an undo, with a later entry in the history and no
\* timer pending
C34_Witness ==
  /\ lastOp.kind = "undo"
  /\ historyTimeout = <<>>
  /\ historyIndex < Len(history) - 1
  /\ Snapshot = history[historyIndex + 1]
  /\ Snapshot # EmptyDoc


\* ------------------------------------------------ edit after undo (C35)
\* C35: when the snapshot of an edit made after undos is recorded, the
\* history becomes its entries up to the position undone to followed by the
\* new snapshot, and redo is unavailable.
C35_EditDiscardsRedo ==
  [][(/\ HistoryTimeoutFires
      /\ historyIndex < Len(history) - 1
      /\ historyIndex' # historyIndex)
       => /\ history' = SubSeq(history, 1, historyIndex + 1) \o <<Snapshot>>
          /\ ~(historyIndex' < Len(history') - 1)]_vars

\* C35 happens: the snapshot recorded last took a redo entry out of a
\* history that was not full
C35_Witness ==
  /\ dropped # <<>>
  /\ Len(history) < MAX_HISTORY_SIZE
  /\ Len(history) >= 2
  /\ historyIndex = Len(history) - 1
  /\ history[Len(history)] = Snapshot
  /\ history[Len(history)] # history[Len(history) - 1]


\* ------------------------------------------------ chords over a column toggle (C36)
\* the largest number of chords a column of cs holds
MaxChordCount(cs) ==
  CHOOSE n \in {Len(cs[c]) : c \in Columns} : \A c \in Columns : Len(cs[c]) <= n

\* the places <<column, k>> of the chords of cs
ChordPlaces(cs) == {p \in Columns \X (1..MaxChordCount(cs)) : p[2] <= Len(cs[p[1]])}

\* C36: a column-count toggle keeps every chord: each chord of any column
\* before the toggle is afterwards in exactly one place of one column, with
\* its id, chord symbol, charIndex and fine offset.
C36_ToggleKeepsChords ==
  [][ToggleColumnCount
       => \A p \in ChordPlaces(chords) :
             LET c == chords[p[1]][p[2]]
                 places == {q \in ChordPlaces(chords') : chords'[q[1]][q[2]].id = c.id}
             IN /\ Cardinality(places) = 1
                /\ \A q \in places :
                      /\ chords'[q[1]][q[2]].chordSymbol = c.chordSymbol
                      /\ chords'[q[1]][q[2]].charIndex = c.charIndex
                      /\ chords'[q[1]][q[2]].offsetX = c.offsetX]_vars


\* ------------------------------------------------ the hidden middle column (C37)
\* C37: while the page has two columns, the middle column, which is not
\* shown, holds no text and no chords.
C37_HiddenMiddleEmpty ==
  columnCount = 2 => text["middle"] = <<>> /\ chords["middle"] = <<>>


\* ------------------------------------------------ chord ids (C38)
\* a document with "[A]\na" in the left column and "[B]" in the right column
TwoSections ==
  [id |-> "doc-6", title |-> "Song",
   text |-> [c \in Columns |-> IF c = "left" THEN <<"[", "A", "]", NL, "a">>
                               ELSE IF c = "right" THEN <<"[", "B", "]">> ELSE <<>>],
   chords |-> [c \in Columns |-> IF c = "left" THEN <<Chord(109, "Em", 1, 0, 0)>> ELSE <<>>],
   direction |-> "ltr", columnCount |-> 2]

IdDocs == {TwoSections}
IdColumns == {"left", "right"}

NextIds ==
  \/ \E doc \in IdDocs : HandleLoadDocument(doc)
  \/ \E c \in IdColumns : HandleSectionContextMenu(c, 0)
  \/ HandleCopySection("left")
  \/ \E c \in IdColumns : HandlePasteSection(c)
  \/ ToggleChordMode("left")
  \/ HandleCharClick("left", 1, 0)
  \/ HandleSelectChord("left", "G")
  \/ ToggleColumnCount
  \/ HistoryTimeoutFires
  \/ HandleUndo
  \/ HandleRedo

SpecIds == Init /\ [][NextIds]_vars

\* C38: no two chords of the document, in one column or in two, have the
\* same id.
C38_UniqueChordIds ==
  \A p, q \in ChordPlaces(chords) :
     chords[p[1]][p[2]].id = chords[q[1]][q[2]].id => p = q

\* C38 happens: the section copied from the left column has been pasted
\* into the left column and into the right column, each copy holding a chord
C38_Witness ==
  /\ lastOp.kind = "pasteSection"
  /\ Len(chords["left"]) = 2
  /\ Len(chords["right"]) = 1


\* ------------------------------------------- position indicators of a line
\* handleToggleLineIndicator(lineIndex), from the Show / Hide button of a
\* hovered line that has chords: the line's index joins or leaves the set
ToggleIndicator(indicators, lineIndex) ==
  IF lineIndex \in indicators THEN indicators \ {lineIndex} ELSE indicators \cup {lineIndex}

HandleToggleLineIndicator(col, lineIndex) ==
  /\ Visible(col)
  /\ NoDropdown
  /\ ~chordMode[col]
  /\ lineIndex \in 0..(LineCount(col) - 1)
  /\ Len(getChordsForLine(col, lineIndex)) > 0
  /\ lineIndicators' = [lineIndicators EXCEPT ![col] = ToggleIndicator(@, lineIndex)]
  /\ Plain("toggleIndicator", col, lineIndex)
  /\ UNCHANGED <<docVars, histVars, fileVars, uiVars, dragVars, nextChordId, edits, anchor>>
  /\ UNCHANGED <<barVars, pureVars, importVars, dialogVars>>

IndicatorDocs == {Sectioned}

\* what is pasted into a line: two lines, so one line is inserted
IndicatorPastes == {<<"x", NL, "y">>}

NextIndicators ==
  \/ \E doc \in IndicatorDocs : HandleLoadDocument(doc)
  \/ \E i \in 0..(LineCount("left") - 1) : HandleToggleLineIndicator("left", i)
  \/ \E i \in 0..(LineCount("left") - 1) : HandleEnter("left", i, 0)
  \/ \E i \in 0..(LineCount("left") - 1) : HandleBackspace("left", i)
  \/ \E i \in 0..(LineCount("left") - 1), p \in IndicatorPastes :
        HandleLinePaste("left", i, p, 0, 0)
  \/ HandleSectionContextMenu("left", 0)
  \/ HandleCopySection("left")
  \/ HandlePasteSection("left")
  \/ HandleDeleteSection("left")

SpecIndicators == Init /\ [][NextIndicators]_vars

\* the indexes the flagged lines have after an edit: newMarks lists, line by
\* line, the index the line had before the edit (negative for a new line)
Follow(indicators, newMarks) ==
  {k - 1 : k \in {j \in 1..Len(newMarks) : newMarks[j] \in indicators}}

\* the lines of the left column after the edit the step makes, by old index
EditedMarks ==
  LET marks == Marks(LineCount("left"))
      menu == contextMenuChordId["left"][1]
      r == getSectionRange(text["left"], menu)
  IN IF lastOp'.kind = "enter" THEN EnterLines(marks, lastOp'.lineIndex, -1)
     ELSE IF lastOp'.kind = "backspace" THEN BackspaceLines(marks, lastOp'.lineIndex)
     ELSE IF lastOp'.kind = "paste"
       THEN PasteSplice(marks, lastOp'.lineIndex, lastOp'.lineIndex,
                        NewMarks(lastOp'.n - 1), -(lastOp'.n + 1))
     ELSE IF lastOp'.kind = "pasteSection"
       THEN PasteSectionLines(marks, menu, NewMarks(lastOp'.n))
     ELSE Splice(marks, r.startLine, r.endLine - r.startLine + 1, <<>>)

LineEdits == {"enter", "backspace", "paste", "pasteSection", "deleteSection"}

\* C39: after Enter, a Backspace merge, a multi-line paste, a section paste
\* or a section delete in a column, the column's indicator set holds the
\* new index of every flagged line that is still there, and no other index
C39_IndicatorsFollowLines ==
  [][(lastOp'.kind \in LineEdits /\ lastOp'.col = "left" /\ text'["left"] # text["left"])
       => lineIndicators'["left"] = Follow(lineIndicators["left"], EditedMarks)]_vars


\* ------------------------------------------------- the state after a load
\* C40: once handleLoadDocument and the effects it triggers have run, the
\* document is reported as having no unsaved changes
C40_LoadedIsSaved ==
  [][(\E doc \in {HelloWorld, Verses} : HandleLoadDocument(doc)) => ~hasUnsavedChanges']_vars

====
